---- MODULE Spec2Model ----
(***************************************************************************)
(* class-mate backend: the document ingestion job (PDF / PPTX) that turns  *)
(* a stored course-content file into document_pages and content_chunks     *)
(* rows, and the ingestion status it leaves on the course_contents row.    *)
(*                                                                         *)
(* Every action is one step of the code between two commit points: what a  *)
(* session reads, the rows it writes and the commit (or the exception that *)
(* leaves the transaction rolled back).                                    *)
(*                                                                         *)
(* Further parts, each with a specification of its own over the same       *)
(* state: the deletion of a content item (SpecDelete), retrieval over the  *)
(* stored chunks (SpecRetrieve), the merging of caption cues (SpecMerge)   *)
(* and the two writers of transcript segments (SpecTranscript), the chat   *)
(* engine (SpecEngine) and the chat request (SpecChat), the refresh        *)
(* sessions of /auth (SpecAuth), video uploads and transcription requests  *)
(* (SpecVideo), and two ingestion runs of one content id at the same time  *)
(* beside a retrieval (SpecRace).                                          *)
(***************************************************************************)
EXTENDS Integers, Sequences, FiniteSets, TLC

VARIABLES settings, pptx_importable, content, s3, pages, chunks, run, log,
          response, uploads, deleted,
          call, merged, asset, segments, ingest, chat,
          auth, video, race

\* the state of the parts of the backend other than document ingestion:
\* the last retrieval call, the last application of merge_cues, the
\* video_assets row, the transcript_segments table, the last transcript run,
\* the last chat operation
others == <<call, merged, asset, segments, ingest, chat, auth, video, race>>

vars == <<settings, pptx_importable, content, s3, pages, chunks, run, log,
          response, uploads, deleted, others>>

----
(* Bounds of the model *)

\* pages (slides) of the largest source document
MaxPages == 2
\* invocations of ingest_content_to_db per content id (the scheduled one included)
MaxRuns == 2
\* times the stored object of a content id is overwritten
MaxUploads == 1

----
(* Program constants *)

\* pdf_ingestion.py:206 / pptx_ingestion.py:196, total_chars < 200
LowTextThreshold == 200
\* settings.py:47 rag_chunk_size
rag_chunk_size == 1200
\* settings.py:48 rag_chunk_overlap
rag_chunk_overlap == 200

ContentIds == {"c1"}
Categories == {"exams", "notes"}
NULL == "null"
\* datetime.now(timezone.utc): only being set or null is observed
NOW == "ts"

----
(* Texts.  A text is a core of body characters (first and last one not    *)
(* whitespace, no separator inside) between pre leading and post trailing *)
(* whitespace characters.                                                 *)

Text(pre, body, post) == [pre |-> pre, body |-> body, post |-> post]
EmptyText == Text(0, 0, 0)

\* len(s)
TextLen(t) == t.pre + t.body + t.post

\* s.strip(): a text without a core is all whitespace and strips to ""
strip(t) == Text(0, t.body, 0)

\* the texts of the pages of the source documents: whitespace only, fewer
\* characters than the low-text threshold, more than one chunk
BlankText == Text(2, 0, 1)
ShortText == Text(1, 100, 0)
LongText  == Text(0, 1300, 2)

\* RecursiveCharacterTextSplitter(chunk_size, chunk_overlap).split_text on a
\* stripped text of n characters without separators: windows of chunk_size
\* characters, each starting chunk_overlap before the end of the previous
\* one; the empty text gives no chunk.
RECURSIVE SplitFrom(_, _)
SplitFrom(off, n) ==
    IF n - off <= rag_chunk_size
    THEN << [off |-> off, len |-> n - off] >>
    ELSE << [off |-> off, len |-> rag_chunk_size] >>
         \o SplitFrom(off + rag_chunk_size - rag_chunk_overlap, n)

split_text(t) == IF TextLen(t) = 0 THEN << >> ELSE SplitFrom(0, TextLen(t))

----
(* Stored objects (the bytes behind a file_key), by what the extractors   *)
(* make of them.                                                          *)

\* a PDF page: page.extract_text() raises, or returns raw
PdfPage(raises, raw) == [raises |-> raises, raw |-> raw]

\* a slide: title shape text, the joined text of its shapes, its notes
EmptySlide  == [title |-> EmptyText, slide_text |-> BlankText, notes_text |-> EmptyText]
TitledSlide == [title |-> Text(0, 11, 1), slide_text |-> Text(0, 100, 0),
                notes_text |-> Text(1, 89, 0)]
LongSlide   == [title |-> EmptyText, slide_text |-> LongText, notes_text |-> EmptyText]

\* The documents are the windows of up to MaxPages pages of a fixed cycle of
\* pages, starting anywhere in it: every kind of page comes first, last and
\* next to the others, and the number of documents grows with MaxPages only
\* linearly.
PdfCycle ==
    << PdfPage(FALSE, ShortText), PdfPage(FALSE, ShortText),
       PdfPage(FALSE, BlankText), PdfPage(FALSE, LongText),
       PdfPage(TRUE, EmptyText) >>

PptxCycle == << TitledSlide, EmptySlide, LongSlide >>

Window(cycle, t, k) ==
    [i \in 1..k |-> cycle[((t + i - 2) % Len(cycle)) + 1]]

Windows(cycle) ==
    {Window(cycle, t, k) : t \in 1..Len(cycle), k \in 0..MaxPages}

CorruptObject == [fmt |-> "corrupt", units |-> << >>]
PdfObjects  == {[fmt |-> "pdf", units |-> u] : u \in Windows(PdfCycle)}
PptxObjects == {[fmt |-> "pptx", units |-> u] : u \in Windows(PptxCycle)}
NoObject == [fmt |-> "none", units |-> << >>]

----
(* Extractors *)

\* _extract_pdf_pages: PdfReader raises on bytes that are no PDF; a page
\* whose extract_text raises degrades to ""; every text is stripped
extract_pdf_pages(obj) ==
    IF obj.fmt # "pdf"
    THEN [raised |-> TRUE, pages |-> << >>]
    ELSE [raised |-> FALSE,
          pages |-> [i \in 1..Len(obj.units) |->
                       [page_no |-> i,
                        text |-> IF obj.units[i].raises THEN EmptyText
                                 ELSE strip(obj.units[i].raw)]]]

\* _extract_pptx_slides: no slide when python-pptx cannot be imported;
\* Presentation raises on bytes that are no PPTX
extract_pptx_slides(obj, importable) ==
    IF ~importable THEN [raised |-> FALSE, slides |-> << >>]
    ELSE IF obj.fmt # "pptx" THEN [raised |-> TRUE, slides |-> << >>]
    ELSE [raised |-> FALSE,
          slides |-> [i \in 1..Len(obj.units) |->
                        [slide_no |-> i,
                         title |-> strip(obj.units[i].title),
                         slide_text |-> strip(obj.units[i].slide_text),
                         notes_text |-> strip(obj.units[i].notes_text)]]]

\* _join_nonempty(*parts, sep="\n"): strip every part, drop the empty ones,
\* join with one separator character, strip
RECURSIVE JoinedLen(_)
JoinedLen(parts) ==
    IF parts = << >> THEN 0
    ELSE LET h == strip(Head(parts)).body
             r == JoinedLen(Tail(parts))
         IN IF h = 0 THEN r ELSE IF r = 0 THEN h ELSE h + 1 + r

join_nonempty(parts) == Text(0, JoinedLen(parts), 0)

\* header = f"Slide {slide_no}", then " — {title}" when the slide has a title
SlideHeader(s) ==
    Text(0, 7 + (IF TextLen(s.title) > 0 THEN 3 + TextLen(s.title) ELSE 0), 0)

\* f"Notes:\n{notes_text}" if notes_text else ""
SlideNotes(s) ==
    IF TextLen(s.notes_text) > 0 THEN Text(0, 7 + TextLen(s.notes_text), 0)
    ELSE EmptyText

\* combined text of a slide (pptx_ingestion.py:204-214)
Combined(s) == strip(join_nonempty(<<SlideHeader(s), s.slide_text, SlideNotes(s)>>))

----
(* Rows built in memory by one run *)

RECURSIVE SumSeq(_)
SumSeq(q) == IF q = << >> THEN 0 ELSE Head(q) + SumSeq(Tail(q))

\* the chunks of one page: strip each piece of the splitter, skip the empty ones
PageChunks(txt) ==
    IF TextLen(txt) = 0 THEN << >>
    ELSE SelectSeq(split_text(txt), LAMBDA p : p.len > 0)

PdfPageRow(c, course_id, p) ==
    [content_id |-> c, course_id |-> course_id, page_no |-> p.page_no,
     text |-> strip(p.text)]

PdfPageRows(c, course_id, extracted) ==
    [i \in 1..Len(extracted) |-> PdfPageRow(c, course_id, extracted[i])]

\* a chunk is said to run on to the following page
PdfChunkRow_NextPage(c, course_id, category, p, piece, chunk_index) ==
    [content_id |-> c, course_id |-> course_id, category |-> category,
     chunk_index |-> chunk_index, text |-> piece,
     meta |-> [doc_type |-> "pdf", page_start |-> p.page_no,
               page_end |-> p.page_no + 1, extraction_warning |-> NULL]]

\* pdf_ingestion.py:174-187
PdfChunkRow(c, course_id, category, p, piece, chunk_index) ==
    [content_id |-> c, course_id |-> course_id, category |-> category,
     chunk_index |-> chunk_index, text |-> piece,
     meta |-> [doc_type |-> "pdf", page_start |-> p.page_no,
               page_end |-> p.page_no, extraction_warning |-> NULL]]

\* chunk_index starts again at 0 on every page
RECURSIVE PdfChunkRows_PerPage(_, _, _, _, _)
PdfChunkRows_PerPage(c, course_id, category, extracted, chunk_index) ==
    IF extracted = << >> THEN << >>
    ELSE LET p == Head(extracted)
             pieces == PageChunks(strip(p.text))
             rows == [k \in 1..Len(pieces) |->
                        PdfChunkRow(c, course_id, category, p, pieces[k], k - 1)]
         IN rows \o PdfChunkRows_PerPage(c, course_id, category,
                                         Tail(extracted), 0)

\* the loop of pdf_ingestion.py:153-189; chunk_index counts on across pages
RECURSIVE PdfChunkRows(_, _, _, _, _)
PdfChunkRows(c, course_id, category, extracted, chunk_index) ==
    IF extracted = << >> THEN << >>
    ELSE LET p == Head(extracted)
             pieces == PageChunks(strip(p.text))
             rows == [k \in 1..Len(pieces) |->
                        PdfChunkRow(c, course_id, category, p, pieces[k],
                                    chunk_index + k - 1)]
         IN rows \o PdfChunkRows(c, course_id, category, Tail(extracted),
                                 chunk_index + Len(pieces))

\* total_chars of pdf_ingestion.py:202
PdfTotalChars(page_rows) ==
    SumSeq([i \in 1..Len(page_rows) |-> TextLen(strip(page_rows[i].text))])

\* total_chars of pptx_ingestion.py:193-195
PptxTotalChars(slides) ==
    SumSeq([i \in 1..Len(slides) |->
              TextLen(slides[i].title) + TextLen(slides[i].slide_text)
              + TextLen(slides[i].notes_text)])

PptxPageRow(c, course_id, s) ==
    [content_id |-> c, course_id |-> course_id, page_no |-> s.slide_no,
     text |-> Combined(s)]

PptxPageRows(c, course_id, slides) ==
    [i \in 1..Len(slides) |-> PptxPageRow(c, course_id, slides[i])]

PptxChunkRow(c, course_id, category, s, piece, chunk_index, low_text) ==
    [content_id |-> c, course_id |-> course_id, category |-> category,
     chunk_index |-> chunk_index, text |-> piece,
     meta |-> [doc_type |-> "slides", page_start |-> s.slide_no,
               page_end |-> s.slide_no,
               extraction_warning |-> IF low_text THEN "low_text_extracted" ELSE NULL]]

\* the loop of pptx_ingestion.py:202-256
RECURSIVE PptxChunkRows(_, _, _, _, _, _)
PptxChunkRows(c, course_id, category, slides, chunk_index, low_text) ==
    IF slides = << >> THEN << >>
    ELSE LET s == Head(slides)
             pieces == PageChunks(Combined(s))
             rows == [k \in 1..Len(pieces) |->
                        PptxChunkRow(c, course_id, category, s, pieces[k],
                                     chunk_index + k - 1, low_text)]
         IN rows \o PptxChunkRows(c, course_id, category, Tail(slides),
                                  chunk_index + Len(pieces), low_text)

----
(* State *)

\* (mime type, file name extension) of a content item, by what the
\* classifiers look for in them
ContentTypes ==
    {[mime |-> "pdf", ext |-> "pdf"], [mime |-> "pptx", ext |-> "pptx"],
     [mime |-> "other", ext |-> "other"], [mime |-> "pdf", ext |-> "pptx"]}

\* _is_pptx, _is_pptx_like
is_pptx(ct) == ct.mime = "pptx" \/ ct.ext = "pptx"

\* every content type is taken for a PDF
is_pdf_AnyType(ct) == TRUE

\* _is_pdf, _is_pdf_like
is_pdf(ct) == ct.mime = "pdf" \/ ct.ext = "pdf"

\* the objects a client uploads for a content item of a type
ObjectsFor(ct) ==
    IF is_pptx(ct) THEN PptxObjects \cup {CorruptObject}
    ELSE IF is_pdf(ct) THEN PdfObjects \cup {CorruptObject}
    ELSE {CorruptObject}

\* exceptions of s3.get_object, by their message
DownloadErrors == {"NoSuchKey", "EndpointConnectionError"}

\* no row of course_contents
NoContent ==
    [exists |-> FALSE, course_id |-> NULL, category |-> NULL, file_key |-> FALSE,
     type |-> [mime |-> "other", ext |-> "other"],
     ingestion_status |-> "none", ingestion_warning |-> NULL,
     ingestion_error |-> NULL, ingestion_started_at |-> NULL,
     ingestion_completed_at |-> NULL]

\* no task running for a content id
IdleRun ==
    [pc |-> "idle", bytes |-> NoObject, course_id |-> NULL, category |-> NULL,
     page_rows |-> << >>, chunk_rows |-> << >>]

\* nothing has happened yet in the other parts of the backend
NoCall == [done |-> FALSE]
NoMerge == [done |-> FALSE]
NoAsset == [exists |-> FALSE]
NoIngest == [done |-> FALSE, n |-> 0]
NoChat == [done |-> FALSE, n |-> 0, conversations |-> {}, messages |-> << >>]
\* no refresh session and no request; no video upload; no concurrent run
NoAuth == [sessions |-> << >>, n |-> 0]
NoVideo == [assets |-> << >>, n |-> 0]
NoRace == [n |-> 0]

OthersIdle ==
    /\ call = NoCall
    /\ merged = NoMerge
    /\ asset = NoAsset
    /\ segments = << >>
    /\ ingest = NoIngest
    /\ chat = NoChat
    /\ auth = NoAuth
    /\ video = NoVideo
    /\ race = NoRace

Init ==
    /\ OthersIdle
    /\ deleted = {}
    /\ settings \in [rag_enabled : BOOLEAN, s3_bucket : BOOLEAN]
    /\ pptx_importable \in BOOLEAN
    /\ content = [c \in ContentIds |-> NoContent]
    /\ s3 = [c \in ContentIds |-> NoObject]
    /\ pages = [c \in ContentIds |-> << >>]
    /\ chunks = [c \in ContentIds |-> << >>]
    /\ run = [c \in ContentIds |-> IdleRun]
    /\ log = [c \in ContentIds |-> << >>]
    /\ response = 0
    /\ uploads = [c \in ContentIds |-> 0]

\* exceptions of the extractors and of the database, by their message
ExtractError == "extract_failed"
PersistError == "commit_failed"

\* the task of a content id ends at step run[c].pc: its summary is what a
\* caller observes once the call has returned or raised.  extracted is the
\* number of pages the extractor returned (-1 when it was not reached or
\* raised), exc the message of the exception met (NULL when none).
Finished(c, outcome, exc, extracted, new_pages, new_chunks) ==
    /\ run' = [run EXCEPT ![c] = IdleRun]
    /\ log' = [log EXCEPT ![c] =
                 Append(@, [pc |-> run[c].pc, bytes |-> run[c].bytes,
                            outcome |-> outcome, exc |-> exc,
                            extracted |-> extracted,
                            pages |-> new_pages, chunks |-> new_chunks])]

\* the task returns before it has read or written anything
ReturnsEarly(c) == Finished(c, "returned", NULL, -1, pages[c], chunks[c])

----
(* POST /courses/{course_id}/contents *)

\* every file-backed row is queued, indexing enabled or not
InitialStatus_AnyFile(file_key, rag_enabled) ==
    IF file_key THEN "queued" ELSE "none"

\* status given to a new row (course_contents.py:93-95)
InitialStatus(file_key, rag_enabled) ==
    IF file_key /\ rag_enabled THEN "queued" ELSE "none"

\* a request attaching a file is never rejected
RejectsFile_Never(file_key, s3_bucket) == FALSE

\* course_contents.py:77-81: the request attaches a file and S3_BUCKET is
\* not set
RejectsFile(file_key, s3_bucket) == file_key /\ ~s3_bucket

\* the id of a new row is a fresh uuid4: the id of a deleted row is not
\* given again
create_course_content(c) ==
    /\ ~content[c].exists
    /\ c \notin deleted
    /\ run[c].pc = "idle"
    /\ log[c] = << >>
    /\ \E category \in Categories, ct \in ContentTypes, file_key \in BOOLEAN :
         IF RejectsFile(file_key, settings.s3_bucket)
         THEN /\ response' = 501
              /\ UNCHANGED <<others, deleted, settings, pptx_importable, content, s3, pages, chunks, run, log, uploads>>
         ELSE /\ content' = [content EXCEPT ![c] =
                   [NoContent EXCEPT !.exists = TRUE, !.course_id = "courseA",
                      !.category = category, !.file_key = file_key, !.type = ct,
                      !.ingestion_status =
                          InitialStatus(file_key, settings.rag_enabled)]]
              /\ IF file_key
                 THEN \E obj \in ObjectsFor(ct) : s3' = [s3 EXCEPT ![c] = obj]
                 ELSE s3' = s3
              /\ run' = [run EXCEPT ![c].pc =
                           IF file_key /\ settings.rag_enabled
                           THEN "ingest_content_to_db" ELSE "idle"]
              /\ response' = 200
              /\ UNCHANGED <<others, deleted, settings, pptx_importable, pages, chunks, log, uploads>>

\* the stored object of a content item is overwritten between two runs
ReplaceSource(c) ==
    /\ content[c].exists /\ content[c].file_key
    /\ run[c].pc = "idle"
    /\ uploads[c] < MaxUploads
    /\ \E obj \in ObjectsFor(content[c].type) \ {s3[c]} :
         s3' = [s3 EXCEPT ![c] = obj]
    /\ uploads' = [uploads EXCEPT ![c] = @ + 1]
    /\ UNCHANGED <<others, deleted, settings, pptx_importable, content, pages, chunks, run, log, response>>

\* a caller invokes ingest_content_to_db again (a retry), once the previous
\* task of the content id has ended
Invoke(c) ==
    /\ run[c].pc = "idle"
    /\ content[c].exists
    /\ Len(log[c]) < MaxRuns
    /\ run' = [run EXCEPT ![c].pc = "ingest_content_to_db"]
    /\ UNCHANGED <<others, deleted, settings, pptx_importable, content, s3, pages, chunks, log, response, uploads>>

----
(* ingest_content_to_db: the dispatcher *)

ingest_content_to_db(c) ==
    /\ run[c].pc = "ingest_content_to_db"
    /\ IF ~settings.rag_enabled \/ ~content[c].exists \/ ~content[c].file_key
       THEN ReturnsEarly(c)
       ELSE IF is_pptx(content[c].type)
       THEN run' = [run EXCEPT ![c].pc = "ingest_pptx_content_to_db"] /\ log' = log
       ELSE IF is_pdf(content[c].type)
       THEN run' = [run EXCEPT ![c].pc = "ingest_pdf_content_to_db"] /\ log' = log
       ELSE ReturnsEarly(c)
    /\ UNCHANGED <<others, deleted, settings, pptx_importable, content, s3, pages, chunks, response, uploads>>

----
(* ingest_pdf_content_to_db *)

\* the outcome of the previous run is kept
ClearOutcome_Kept(row) == row

\* pdf_ingestion.py:106-109
ClearOutcome(row) ==
    [row EXCEPT !.ingestion_warning = NULL, !.ingestion_error = NULL,
                !.ingestion_started_at = NOW, !.ingestion_completed_at = NULL]

\* the row is not marked processing at the start of a run
MarkProcessing_StatusKept(row) ==
    [row EXCEPT !.ingestion_warning = NULL, !.ingestion_error = NULL,
                !.ingestion_started_at = NOW, !.ingestion_completed_at = NULL]

\* pdf_ingestion.py:104-110
MarkProcessing(row) ==
    [ClearOutcome(row) EXCEPT !.ingestion_status = "processing"]

\* pdf_ingestion.py:127-131
MarkDownloadError(row, e) ==
    IF ~row.exists THEN row
    ELSE [row EXCEPT !.ingestion_status = "error", !.ingestion_error = e,
                     !.ingestion_completed_at = NOW]

\* pdf_ingestion.py:139-143
MarkNoPages(row) ==
    IF ~row.exists THEN row
    ELSE [row EXCEPT !.ingestion_status = "warning",
                     !.ingestion_warning = "no_pages_extracted",
                     !.ingestion_completed_at = NOW]

\* the text volume is not looked at
MarkOutcome_NoThreshold(row, total_chars) ==
    IF ~row.exists THEN row
    ELSE [row EXCEPT !.ingestion_status = "done", !.ingestion_warning = NULL,
                     !.ingestion_error = NULL, !.ingestion_completed_at = NOW]

\* pdf_ingestion.py:205-213
MarkOutcome(row, total_chars) ==
    IF ~row.exists THEN row
    ELSE IF total_chars < LowTextThreshold
    THEN [row EXCEPT !.ingestion_status = "warning",
                     !.ingestion_warning = "low_text_extracted",
                     !.ingestion_error = NULL, !.ingestion_completed_at = NOW]
    ELSE [row EXCEPT !.ingestion_status = "done", !.ingestion_warning = NULL,
                     !.ingestion_error = NULL, !.ingestion_completed_at = NOW]

\* the rows are added without the two deletes
ReplaceAll_NoDelete(stored, rows) == stored \o rows

\* delete(...).where(content_id == c) followed by add_all(rows), in one
\* transaction: the rows of the content id after the commit
ReplaceAll(stored, rows) == rows

\* lines 85-115: the guards, then the row is marked processing and committed
PdfBegin(c) ==
    /\ run[c].pc = "ingest_pdf_content_to_db"
    /\ IF \/ ~settings.rag_enabled \/ ~settings.s3_bucket
          \/ ~content[c].exists \/ ~content[c].file_key
          \/ ~is_pdf(content[c].type)
       THEN /\ ReturnsEarly(c)
            /\ content' = content
       ELSE /\ content' = [content EXCEPT ![c] = MarkProcessing(@)]
            /\ run' = [run EXCEPT ![c].pc = "pdf_download",
                                  ![c].course_id = content[c].course_id,
                                  ![c].category = content[c].category]
            /\ log' = log
    /\ UNCHANGED <<others, deleted, settings, pptx_importable, s3, pages, chunks, response, uploads>>

\* lines 117-132: get_object and read, or the except branch
PdfDownload(c) ==
    /\ run[c].pc = "pdf_download"
    /\ \/ /\ s3[c] # NoObject
          /\ run' = [run EXCEPT ![c].pc = "pdf_extract", ![c].bytes = s3[c]]
          /\ UNCHANGED <<content, log>>
       \/ \E e \in DownloadErrors :
            /\ content' = [content EXCEPT ![c] = MarkDownloadError(@, e)]
            /\ Finished(c, "returned", e, -1, pages[c], chunks[c])
    /\ UNCHANGED <<others, deleted, settings, pptx_importable, s3, pages, chunks, response, uploads>>

\* lines 134-189: extraction (an exception of PdfReader leaves the function),
\* the no-pages branch, the rows built in memory
PdfExtract(c) ==
    /\ run[c].pc = "pdf_extract"
    /\ LET r == extract_pdf_pages(run[c].bytes) IN
         IF r.raised
         THEN /\ Finished(c, "raised", ExtractError, -1, pages[c], chunks[c])
              /\ content' = content
         ELSE IF r.pages = << >>
         THEN /\ content' = [content EXCEPT ![c] = MarkNoPages(@)]
              /\ Finished(c, "returned", NULL, 0, pages[c], chunks[c])
         ELSE /\ run' = [run EXCEPT
                    ![c].pc = "pdf_persist",
                    ![c].page_rows = PdfPageRows(c, run[c].course_id, r.pages),
                    ![c].chunk_rows =
                        PdfChunkRows(c, run[c].course_id, run[c].category, r.pages, 0)]
              /\ UNCHANGED <<content, log>>
    /\ UNCHANGED <<others, deleted, settings, pptx_importable, s3, pages, chunks, response, uploads>>

\* lines 191-214: one transaction; when the database raises, the session is
\* closed without a commit and the exception leaves the function.  The rows
\* reference course_contents.id (0013:50-51, 76-77): the inserts succeed only
\* while the row of the content item exists.
PdfPersist(c) ==
    /\ run[c].pc = "pdf_persist"
    /\ \/ LET new_pages == ReplaceAll(pages[c], run[c].page_rows)
              new_chunks == ReplaceAll(chunks[c], run[c].chunk_rows)
          IN /\ content[c].exists
             /\ pages' = [pages EXCEPT ![c] = new_pages]
             /\ chunks' = [chunks EXCEPT ![c] = new_chunks]
             /\ content' = [content EXCEPT ![c] =
                              MarkOutcome(@, PdfTotalChars(run[c].page_rows))]
             /\ Finished(c, "returned", NULL, Len(run[c].page_rows),
                         new_pages, new_chunks)
       \/ /\ Finished(c, "raised", PersistError, Len(run[c].page_rows),
                       pages[c], chunks[c])
          /\ UNCHANGED <<content, pages, chunks>>
    /\ UNCHANGED <<others, deleted, settings, pptx_importable, s3, response, uploads>>

----
(* ingest_pptx_content_to_db *)

\* lines 158-177: the guards; nothing is written
PptxBegin(c) ==
    /\ run[c].pc = "ingest_pptx_content_to_db"
    /\ IF \/ ~settings.rag_enabled \/ ~settings.s3_bucket
          \/ ~content[c].exists \/ ~content[c].file_key
          \/ ~is_pptx(content[c].type)
       THEN ReturnsEarly(c)
       ELSE /\ run' = [run EXCEPT ![c].pc = "pptx_download",
                                  ![c].course_id = content[c].course_id,
                                  ![c].category = content[c].category]
            /\ log' = log
    /\ UNCHANGED <<others, deleted, settings, pptx_importable, content, s3, pages, chunks, response, uploads>>

\* lines 179-185: get_object and read; the except branch only returns
PptxDownload(c) ==
    /\ run[c].pc = "pptx_download"
    /\ \/ /\ s3[c] # NoObject
          /\ run' = [run EXCEPT ![c].pc = "pptx_extract", ![c].bytes = s3[c]]
          /\ log' = log
       \/ \E e \in DownloadErrors :
            Finished(c, "returned", e, -1, pages[c], chunks[c])
    /\ UNCHANGED <<others, deleted, settings, pptx_importable, content, s3, pages, chunks, response, uploads>>

\* lines 187-256: extraction, the no-slides return, the rows built in memory
PptxExtract(c) ==
    /\ run[c].pc = "pptx_extract"
    /\ LET r == extract_pptx_slides(run[c].bytes, pptx_importable)
           low_text == PptxTotalChars(r.slides) < LowTextThreshold
       IN IF r.raised
          THEN Finished(c, "raised", ExtractError, -1, pages[c], chunks[c])
          ELSE IF r.slides = << >>
          THEN Finished(c, "returned", NULL, 0, pages[c], chunks[c])
          ELSE /\ run' = [run EXCEPT
                     ![c].pc = "pptx_persist",
                     ![c].page_rows = PptxPageRows(c, run[c].course_id, r.slides),
                     ![c].chunk_rows =
                         PptxChunkRows(c, run[c].course_id, run[c].category,
                                       r.slides, 0, low_text)]
               /\ log' = log
    /\ UNCHANGED <<others, deleted, settings, pptx_importable, content, s3, pages, chunks, response, uploads>>

\* lines 258-265: one transaction, rows only
PptxPersist(c) ==
    /\ run[c].pc = "pptx_persist"
    /\ \/ LET new_pages == ReplaceAll(pages[c], run[c].page_rows)
              new_chunks == ReplaceAll(chunks[c], run[c].chunk_rows)
          IN /\ content[c].exists
             /\ pages' = [pages EXCEPT ![c] = new_pages]
             /\ chunks' = [chunks EXCEPT ![c] = new_chunks]
             /\ Finished(c, "returned", NULL, Len(run[c].page_rows),
                         new_pages, new_chunks)
       \/ /\ Finished(c, "raised", PersistError, Len(run[c].page_rows),
                       pages[c], chunks[c])
          /\ UNCHANGED <<pages, chunks>>
    /\ UNCHANGED <<others, deleted, settings, pptx_importable, content, s3, response, uploads>>

----
Next ==
    \E c \in ContentIds :
       \/ create_course_content(c)
       \/ ReplaceSource(c)
       \/ Invoke(c)
       \/ ingest_content_to_db(c)
       \/ PdfBegin(c)
       \/ PdfDownload(c)
       \/ PdfExtract(c)
       \/ PdfPersist(c)
       \/ PptxBegin(c)
       \/ PptxDownload(c)
       \/ PptxExtract(c)
       \/ PptxPersist(c)

Spec == Init /\ [][Next]_vars

----
(* DELETE /contents/{content_id} *)

\* the page and chunk rows of a deleted content item stay stored
Cascade_NoAction(rows) == rows

\* ON DELETE CASCADE of document_pages.content_id and
\* content_chunks.content_id (0013:50-51, 76-77): the rows of the content
\* item that are left once its row is deleted
Cascade(rows) == << >>

\* course_contents.py:108-160: 404 when the row is not found; the stored
\* object is deleted best-effort (a failure is logged and ignored); the row
\* is deleted and the commit cascades to its pages and chunks
delete_course_content(c) ==
    IF ~content[c].exists
    THEN /\ response' = 404
         /\ UNCHANGED <<others, deleted, settings, pptx_importable, content, s3,
                        pages, chunks, run, log, uploads>>
    ELSE /\ \E s3_deleted \in BOOLEAN :
              s3' = IF content[c].file_key /\ settings.s3_bucket /\ s3_deleted
                    THEN [s3 EXCEPT ![c] = NoObject]
                    ELSE s3
         /\ content' = [content EXCEPT ![c] = NoContent]
         /\ pages' = [pages EXCEPT ![c] = Cascade(@)]
         /\ chunks' = [chunks EXCEPT ![c] = Cascade(@)]
         /\ deleted' = deleted \cup {c}
         /\ response' = 204
         /\ UNCHANGED <<others, settings, pptx_importable, run, log, uploads>>

\* the ingestion of a content item together with its deletion, which may
\* take place between any two steps of a run; the stored object is the one
\* uploaded with the item
NextDelete ==
    \E c \in ContentIds :
       \/ create_course_content(c)
       \/ Invoke(c)
       \/ ingest_content_to_db(c)
       \/ PdfBegin(c)
       \/ PdfDownload(c)
       \/ PdfExtract(c)
       \/ PdfPersist(c)
       \/ PptxBegin(c)
       \/ PptxDownload(c)
       \/ PptxExtract(c)
       \/ PptxPersist(c)
       \/ delete_course_content(c)

SpecDelete == Init /\ [][NextDelete]_vars

----
(* Retrieval: retrieve_course_chunk_hits *)

\* number of hits asked for by the callers of the model
MaxTopK == 2

\* An argument of type str | None: None, or a str whose characters between
\* pre leading and post trailing whitespace characters are core ("" when it
\* has none).
Str(pre, core, post) == [none |-> FALSE, pre |-> pre, core |-> core, post |-> post]
None == [none |-> TRUE, pre |-> 0, core |-> "", post |-> 0]

\* s.strip()
str_strip(s) == Str(0, s.core, 0)

\* truth value of a str: it is not empty
Truthy(s) == s.pre + s.post > 0 \/ s.core # ""

\* (query or "")
OrEmpty(query) == IF query.none THEN Str(0, "", 0) ELSE query

\* an argument of type Sequence[str] | None
List(items) == [none |-> FALSE, items |-> items]
NoList == [none |-> TRUE, items |-> << >>]

\* str(uuid): the text of an id, not the id
UuidStr(id) ==
    CASE id = "c1" -> "str(c1)" [] id = "c2" -> "str(c2)" [] id = "c3" -> "str(c3)"
      [] id = "courseA" -> "str(courseA)" [] id = "courseB" -> "str(courseB)"

CourseIds == {"courseA", "courseB"}

\* query texts: None, empty, whitespace only, one term with and without
\* whitespace around it, another term
Queries ==
    {None, Str(0, "", 0), Str(3, "", 0), Str(0, "eigenvalues", 0),
     Str(1, "eigenvalues", 2), Str(0, "determinant", 0)}

\* category filters: None, empty, one category, a blank entry only, padded
\* entries, a category without chunks
CategoryLists ==
    {NoList, List(<< >>), List(<< Str(0, "exams", 0) >>),
     List(<< Str(1, "", 0) >>),
     List(<< Str(1, "exams", 1), Str(0, "notes", 0) >>),
     List(<< Str(0, "media", 0) >>)}

TopKs == (-1)..MaxTopK

\* The content items whose chunks are stored: each was ingested by one run of
\* the PDF job from the first pages of a document, and all rows of one commit
\* get the same created_at (server_default now(), the time of the
\* transaction).
StoredContents == {"c1", "c2", "c3"}
CourseOf(c) == IF c = "c3" THEN "courseB" ELSE "courseA"
CategoryOf(c) == IF c = "c2" THEN "notes" ELSE "exams"
StartOf(c) == IF c = "c1" THEN 1 ELSE IF c = "c2" THEN 4 ELSE 2
CommittedAt(c) == IF c = "c1" THEN 1 ELSE IF c = "c2" THEN 2 ELSE 3

StoredContent(c) ==
    [NoContent EXCEPT !.exists = TRUE, !.course_id = CourseOf(c),
                      !.category = CategoryOf(c), !.file_key = TRUE,
                      !.type = [mime |-> "pdf", ext |-> "pdf"],
                      !.ingestion_status = "done",
                      !.ingestion_started_at = NOW,
                      !.ingestion_completed_at = NOW]

ExtractedOf(c, k) ==
    extract_pdf_pages([fmt |-> "pdf",
                       units |-> Window(PdfCycle, StartOf(c), k)]).pages

\* a chunk row as stored, with the column the database fills in
StoredChunk(r, created_at) ==
    [content_id |-> r.content_id, course_id |-> r.course_id,
     category |-> r.category, chunk_index |-> r.chunk_index,
     text |-> r.text, meta |-> r.meta, created_at |-> created_at]

StoredChunks(c, k) ==
    LET rows == PdfChunkRows(c, CourseOf(c), CategoryOf(c), ExtractedOf(c, k), 0)
    IN [i \in 1..Len(rows) |-> StoredChunk(rows[i], CommittedAt(c))]

InitRetrieve ==
    /\ \E n \in [StoredContents -> 0..MaxPages] :
         /\ pages = [c \in StoredContents |->
                       PdfPageRows(c, CourseOf(c), ExtractedOf(c, n[c]))]
         /\ chunks = [c \in StoredContents |-> StoredChunks(c, n[c])]
    /\ content = [c \in StoredContents |-> StoredContent(c)]
    /\ s3 = [c \in StoredContents |-> NoObject]
    /\ run = [c \in StoredContents |-> IdleRun]
    /\ log = [c \in StoredContents |-> << >>]
    /\ uploads = [c \in StoredContents |-> 0]
    /\ settings = [rag_enabled |-> TRUE, s3_bucket |-> TRUE]
    /\ pptx_importable = TRUE
    /\ response = 0
    /\ deleted = {}
    /\ OthersIdle

\* the rows of content_chunks
AllChunks ==
    UNION {{chunks[c][i] : i \in 1..Len(chunks[c])} : c \in DOMAIN chunks}

\* text <@> to_bm25query(q, index): the score is computed by the database
\* extension.  It is modelled by the number of occurrences of the query term
\* in the chunk text, a term occurring at every TermEvery-th character of a
\* page text; only whether two scores are equal and which is greater is used.
TermEvery(word) ==
    IF word = "eigenvalues" THEN 500 ELSE IF word = "determinant" THEN 700 ELSE 0

Score(text, q) ==
    LET e == TermEvery(q.core)
    IN IF e = 0 THEN 0
       ELSE ((text.off + text.len - 1) \div e) - ((text.off - 1) \div e)

\* the course filter is left out
InCourse_AnyCourse(row, course_id) == TRUE

\* .where(ContentChunk.course_id == course_id)
InCourse(row, course_id) == row.course_id = course_id

\* cats = [str(c).strip() for c in categories if str(c).strip()]
StrippedCats(categories) ==
    SelectSeq([i \in 1..Len(categories.items) |->
                 str_strip(categories.items[i])], Truthy)

\* the category filter is left out
InCategories_AnyCategory(row, categories) == TRUE

\* lines 44-47: the filter is added when the list and its stripped entries
\* are not empty
InCategories(row, categories) ==
    IF categories.none \/ categories.items = << >> THEN TRUE
    ELSE LET cats == StrippedCats(categories)
         IN IF cats = << >> THEN TRUE
            ELSE \E i \in 1..Len(cats) : cats[i] = Str(0, row.category, 0)

\* ORDER BY rank DESC, created_at DESC: row a is placed before row b
Before(a, b, q) ==
    \/ Score(a.text, q) > Score(b.text, q)
    \/ /\ Score(a.text, q) = Score(b.text, q)
       /\ a.created_at > b.created_at

\* the rows no other row is placed before
First(rows, q) == {r \in rows : \A o \in rows : ~Before(o, r, q)}

\* ORDER BY ... LIMIT k: the results the database may give.  Rows that agree
\* on both sort keys come in an order the query does not determine.
RECURSIVE OrderLimit(_, _, _)
OrderLimit(rows, q, k) ==
    IF k <= 0 \/ rows = {} THEN {<< >>}
    ELSE UNION {{<<r>> \o t : t \in OrderLimit(rows \ {r}, q, k - 1)} :
                  r \in First(rows, q)}

\* meta.setdefault(key, value)
SetDefault(meta, key, value) ==
    IF key \in DOMAIN meta THEN meta ELSE meta @@ (key :> value)

\* the stored metadata is returned as it is
Normalize_NoDefaults(row) == row.meta

\* lines 54-58
Normalize(row) ==
    SetDefault(
      SetDefault(
        SetDefault(row.meta, "content_id", UuidStr(row.content_id)),
        "course_id", UuidStr(row.course_id)),
      "category", row.category)

\* RagHit(text, metadata, score)
RagHit(row, q) ==
    [text |-> row.text, metadata |-> Normalize(row), score |-> Score(row.text, q)]

\* the query is not stripped before it is tested
ShortCircuits_NoStrip(query, top_k) == ~Truthy(OrEmpty(query)) \/ top_k <= 0

\* lines 28-34: the two early returns
ShortCircuits(query, top_k) ==
    ~Truthy(str_strip(OrEmpty(query))) \/ top_k <= 0

\* one call of retrieve_course_chunk_hits; rows is res.all().  The result of
\* a call depends on its arguments and on the stored chunks only: a client
\* makes a call, and may then repeat it with the same arguments.
retrieve_course_chunk_hits ==
    /\ \E course_id \in CourseIds, query \in Queries, top_k \in TopKs,
          categories \in CategoryLists :
         LET q == str_strip(OrEmpty(query))
             matching == {r \in AllChunks : /\ InCourse(r, course_id)
                                            /\ InCategories(r, categories)}
             Returned(rows) ==
                 [done |-> TRUE, course_id |-> course_id, query |-> query,
                  top_k |-> top_k, categories |-> categories, rows |-> rows,
                  hits |-> [i \in 1..Len(rows) |-> RagHit(rows[i], q)]]
         IN /\ call.done => /\ course_id = call.course_id
                             /\ query = call.query
                             /\ top_k = call.top_k
                             /\ categories = call.categories
            /\ IF ShortCircuits(query, top_k)
               THEN call' = Returned(<< >>)
               ELSE \E rows \in OrderLimit(matching, q, top_k) :
                      call' = Returned(rows)
    /\ UNCHANGED <<settings, pptx_importable, content, s3, pages, chunks, run,
                   log, response, uploads, deleted, merged, asset, segments,
                   ingest, chat,
                   auth, video, race>>

NextRetrieve == retrieve_course_chunk_hits

SpecRetrieve == InitRetrieve /\ [][NextRetrieve]_vars

----
(* Captions: merge_cues *)

\* cues of the largest caption file
MaxCues == 3

\* vtt.py:115-116, the defaults of max_chars and max_window_sec (seconds)
DefaultMaxChars == 700
DefaultMaxWindowSec == 30

\* Times are counted in half seconds, texts are sequences of characters.
Sec(n) == 2 * n
HalfSec == 1

VttCue(start_sec, end_sec, text) ==
    [start_sec |-> start_sec, end_sec |-> end_sec, text |-> text]

\* " ".join(texts)
RECURSIVE Join(_)
Join(texts) ==
    IF texts = << >> THEN << >>
    ELSE IF Len(texts) = 1 THEN texts[1]
    ELSE texts[1] \o <<" ">> \o Join(Tail(texts))

\* s.strip() on characters
RECURSIVE LStrip(_)
LStrip(t) == IF t # << >> /\ Head(t) = " " THEN LStrip(Tail(t)) ELSE t

RECURSIVE RStrip(_)
RStrip(t) ==
    IF t # << >> /\ t[Len(t)] = " " THEN RStrip(SubSeq(t, 1, Len(t) - 1)) ELSE t

StripChars(t) == RStrip(LStrip(t))

\* " ".join(c.text for c in buf).strip()
BufText(buf) == StripChars(Join([i \in 1..Len(buf) |-> buf[i].text]))

\* only the text of the new cue is measured
CandidateText_OfCue(buf, cue) == cue.text

\* line 141
CandidateText(buf, cue) == BufText(Append(buf, cue))

\* only the duration of the new cue is measured
CandidateWindow_OfCue(buf, cue) == cue.end_sec - cue.start_sec

\* lines 142-144
CandidateWindow(buf, cue) == cue.end_sec - buf[1].start_sec

\* only the characters are counted
Fits_CharsOnly(buf, cue, max_chars, max_window_sec) ==
    Len(CandidateText(buf, cue)) <= max_chars

\* line 146
Fits(buf, cue, max_chars, max_window_sec) ==
    /\ Len(CandidateText(buf, cue)) <= max_chars
    /\ CandidateWindow(buf, cue) <= max_window_sec

\* the loop of lines 136-152: the buffers in the order they are flushed
RECURSIVE Buffers(_, _, _, _)
Buffers(cues, buf, max_chars, max_window_sec) ==
    IF cues = << >> THEN (IF buf = << >> THEN << >> ELSE <<buf>>)
    ELSE LET cue == Head(cues)
         IN IF buf = << >>
            THEN Buffers(Tail(cues), <<cue>>, max_chars, max_window_sec)
            ELSE IF Fits(buf, cue, max_chars, max_window_sec)
            THEN Buffers(Tail(cues), Append(buf, cue), max_chars, max_window_sec)
            ELSE <<buf>> \o Buffers(Tail(cues), <<cue>>, max_chars, max_window_sec)

\* flush(): what one buffer adds to out
Flushed(buf) ==
    LET text == BufText(buf)
    IN IF text # << >>
       THEN << VttCue(buf[1].start_sec, buf[Len(buf)].end_sec, text) >>
       ELSE << >>

RECURSIVE FlushAll(_)
FlushAll(bufs) ==
    IF bufs = << >> THEN << >> ELSE Flushed(Head(bufs)) \o FlushAll(Tail(bufs))

merge_cues(cues, max_chars, max_window_sec) ==
    FlushAll(Buffers(cues, << >>, max_chars, max_window_sec))

\* Cues as parse_webvtt returns them: their text stripped and not empty,
\* sorted by (start_sec, end_sec).  The caption files are the selections of
\* up to MaxCues cues of this list, in its order.
CuePool ==
    << VttCue(Sec(0), Sec(1), <<"a">>),
       VttCue(Sec(0), Sec(35), <<"f", "g", "h", "i">>),
       VttCue(Sec(1), Sec(2), <<"b">>),
       VttCue(Sec(2), Sec(2) + HalfSec, <<"d", "e">>),
       VttCue(Sec(2), Sec(3), <<"c">>) >>

RECURSIVE Selection(_, _)
Selection(S, i) ==
    IF i > Len(CuePool) THEN << >>
    ELSE (IF i \in S THEN << CuePool[i] >> ELSE << >>) \o Selection(S, i + 1)

CueLists ==
    {Selection(S, 1) : S \in {T \in SUBSET (1..Len(CuePool)) :
                                Cardinality(T) <= MaxCues}}

MaxCharsArgs == {1, 3, 5, DefaultMaxChars}
MaxWindowArgs == {Sec(1) + HalfSec, Sec(2), Sec(3), Sec(DefaultMaxWindowSec)}

\* one application of merge_cues; buffers are the cues behind each segment
ApplyMergeCues ==
    /\ ~merged.done
    /\ \E cues \in CueLists, max_chars \in MaxCharsArgs,
          max_window_sec \in MaxWindowArgs :
         merged' = [done |-> TRUE, cues |-> cues, max_chars |-> max_chars,
                    max_window_sec |-> max_window_sec,
                    buffers |-> Buffers(cues, << >>, max_chars, max_window_sec),
                    out |-> merge_cues(cues, max_chars, max_window_sec)]
    /\ UNCHANGED <<settings, pptx_importable, content, s3, pages, chunks, run,
                   log, response, uploads, deleted, call, asset, segments,
                   ingest, chat,
                   auth, video, race>>

NextMerge == ApplyMergeCues

SpecMerge == Init /\ [][NextMerge]_vars

----
(* Transcript segments: the two writers of transcript_segments *)

\* runs of the transcript writers
MaxIngests == 3

VideoIds == {"v1", "v2"}

\* a or b
Or(a, b) == IF ~a.none /\ Truthy(a) THEN a ELSE b

\* language codes: as arguments of the writers, and as the external
\* transcription reports them
LanguageArgs == {None, Str(0, "en", 0), Str(0, "he", 1)}
ReportedLanguages == {None, Str(0, "en", 0)}

\* the cues of a caption file as parsed, or the segments of a transcription
Transcripts == {Selection(S, 1) : S \in {{}, {1}, {1, 3}}}

\* a row of video_assets, by the fields the writers read and write
VideoAsset(lang, pull_zone, source_file_key) ==
    [exists |-> TRUE, course_id |-> "courseA", status |-> "queued",
     captions_language_code |-> lang, captions_vtt_url |-> None,
     pull_zone_url |-> pull_zone, source_file_key |-> source_file_key,
     transcript_ingested_at |-> NULL, transcription_error |-> NULL]

\* two video assets without segments; the default caption language of the
\* settings (read at ingest.py:72) is a language code or empty
InitTranscript ==
    /\ \E d \in {Str(0, "en", 0), Str(0, "", 0)} :
         settings = [rag_enabled |-> TRUE, s3_bucket |-> TRUE,
                     bunny_default_captions_language_code |-> d]
    /\ \E key \in BOOLEAN :
         asset = [v \in VideoIds |->
                    IF v = "v1" THEN VideoAsset(None, TRUE, key)
                    ELSE VideoAsset(Str(0, "he", 0), FALSE, TRUE)]
    /\ segments = << >>
    /\ ingest = NoIngest
    /\ call = NoCall
    /\ merged = NoMerge
    /\ chat = NoChat
    /\ auth = NoAuth
    /\ video = NoVideo
    /\ race = NoRace
    /\ deleted = {}
    /\ pptx_importable = TRUE
    /\ content = [c \in ContentIds |-> NoContent]
    /\ s3 = [c \in ContentIds |-> NoObject]
    /\ pages = [c \in ContentIds |-> << >>]
    /\ chunks = [c \in ContentIds |-> << >>]
    /\ run = [c \in ContentIds |-> IdleRun]
    /\ log = [c \in ContentIds |-> << >>]
    /\ response = 0
    /\ uploads = [c \in ContentIds |-> 0]

\* TranscriptSegment(course_id, video_asset_id, start_sec, end_sec, text,
\* language_code)
TranscriptSegment(a, v, c, lang) ==
    [course_id |-> a.course_id, video_asset_id |-> v,
     start_sec |-> c.start_sec, end_sec |-> c.end_sec, text |-> c.text,
     language_code |-> lang]

\* the rows of an asset in a language
InPair(r, v, lang) == r.video_asset_id = v /\ r.language_code = lang

\* the delete leaves the rows of the pair in place
ReplaceSegments_NoDelete(table, a, v, lang, segs) ==
    table \o [i \in 1..Len(segs) |-> TranscriptSegment(a, v, segs[i], lang)]

\* delete(TranscriptSegment).where(video_asset_id == v, language_code ==
\* lang), then one db.add per segment, in one transaction
ReplaceSegments(table, a, v, lang, segs) ==
    SelectSeq(table, LAMBDA r : ~InPair(r, v, lang))
    \o [i \in 1..Len(segs) |-> TranscriptSegment(a, v, segs[i], lang)]

\* what a run leaves for its caller to observe; deleted_rows is the number of
\* rows its delete removed
Ran(writer, v, lang, produced, outcome) ==
    ingest' = [done |-> TRUE, n |-> ingest.n + 1, writer |-> writer,
               video_asset_id |-> v, language_code |-> lang,
               produced |-> produced,
               deleted_rows |->
                   Len(SelectSeq(segments, LAMBDA r : InPair(r, v, lang))),
               outcome |-> outcome]

\* ingest.py:72-74
BunnyLang(language_code, a) ==
    LET lang == str_strip(Or(language_code,
                             Or(a.captions_language_code,
                                settings.bunny_default_captions_language_code)))
    IN IF ~Truthy(lang) THEN Str(0, "en", 0) ELSE lang

\* ingest.py:51-121; the fetch, the parse or the merge may raise
ingest_bunny_transcript_for_video_asset(v) ==
    /\ ingest.n < MaxIngests
    /\ asset[v].exists
    /\ \E language_code \in LanguageArgs :
         LET a == asset[v]
             lang == BunnyLang(language_code, a)
             has_url == ~a.captions_vtt_url.none /\ Truthy(str_strip(a.captions_vtt_url))
             url == IF has_url THEN a.captions_vtt_url
                    ELSE Str(0, lang.core, 0)
         IN IF ~has_url /\ ~a.pull_zone_url
            THEN /\ Ran("bunny", v, lang, << >>, "raised")
                 /\ UNCHANGED <<asset, segments>>
            ELSE \/ /\ asset' = [asset EXCEPT ![v].status = "ingest_failed",
                                              ![v].captions_vtt_url = url]
                    /\ Ran("bunny", v, lang, << >>, "raised")
                    /\ UNCHANGED segments
                 \/ \E cues \in Transcripts :
                      LET segs == merge_cues(cues, DefaultMaxChars,
                                             Sec(DefaultMaxWindowSec))
                      IN /\ segments' = ReplaceSegments(segments, a, v, lang, segs)
                         /\ asset' = [asset EXCEPT
                               ![v].captions_vtt_url = url,
                               ![v].captions_language_code = lang,
                               ![v].transcript_ingested_at = NOW,
                               ![v].status = "transcript_ingested"]
                         /\ Ran("bunny", v, lang, segs, "persisted")
    /\ UNCHANGED <<settings, pptx_importable, content, s3, pages, chunks, run,
                   log, response, uploads, deleted, call, merged, chat,
                   auth, video, race>>

\* transcription.py:164-188, the language of an output
ReportedLanguage(language) == Or(language, Str(0, "und", 0))

\* transcription.py:213-403; the download, ffmpeg or the external job may fail
transcribe_media_asset(v) ==
    /\ ingest.n < MaxIngests
    /\ asset[v].exists
    /\ \E requested_language \in LanguageArgs :
         LET a == asset[v]
         IN IF ~a.source_file_key
            THEN /\ asset' = [asset EXCEPT
                        ![v].status = "error",
                        ![v].transcription_error = "Missing source_file_key"]
                 /\ Ran("runpod", v, requested_language, << >>, "returned")
                 /\ UNCHANGED segments
            ELSE \/ /\ asset' = [asset EXCEPT
                           ![v].status = "error",
                           ![v].transcription_error = "failed"]
                    /\ Ran("runpod", v, requested_language, << >>, "returned")
                    /\ UNCHANGED segments
                 \/ \E language \in ReportedLanguages, segs \in Transcripts :
                      LET language_code ==
                              IF ~requested_language.none /\ Truthy(requested_language)
                              THEN requested_language
                              ELSE ReportedLanguage(language)
                      IN /\ segments' =
                               ReplaceSegments(segments, a, v, language_code, segs)
                         /\ asset' = [asset EXCEPT
                               ![v].status = "done",
                               ![v].transcription_error = NULL,
                               ![v].transcript_ingested_at = NOW]
                         /\ Ran("runpod", v, language_code, segs, "persisted")
    /\ UNCHANGED <<settings, pptx_importable, content, s3, pages, chunks, run,
                   log, response, uploads, deleted, call, merged, chat,
                   auth, video, race>>

NextTranscript ==
    \E v \in VideoIds :
       \/ ingest_bunny_transcript_for_video_asset(v)
       \/ transcribe_media_asset(v)

SpecTranscript == InitTranscript /\ [][NextTranscript]_vars

----
(* ChatEngine (app/ai/chat_engine.py) *)

\* the longest history list given to the engine, the most hits a retrieval
\* returns
MaxHistory == 2
MaxHits == 2

\* the chat requests of a behaviour
MaxRequests == 1

\* characters of a retrieved excerpt kept in the prompt and in a citation
SnippetChars == 900

\* the text returned when the language model gave none
FallbackMessage == "I am not sure: could you rephrase your question or provide more course context?"

\* a value of dict.get(key): << >> for None, <<v>> for the value v
Get(meta, key) == IF key \in DOMAIN meta THEN <<meta[key]>> ELSE << >>

\* truth value of meta.get(key): the indexers store no empty value under the
\* keys the engine tests
Has(meta, key) == key \in DOMAIN meta

\* the text of a hit: pre and post whitespace characters around body others
HitText(id, pre, body, post) == [id |-> id, pre |-> pre, body |-> body, post |-> post]

\* UUID(str(content_id)); None when the text is not that of a uuid
UuidOf(s) ==
    CASE s = "str(c1)" -> <<"c1">> [] s = "str(c2)" -> <<"c2">>
      [] s = "str(c3)" -> <<"c3">> [] OTHER -> << >>

\* The hits of a retrieval, by the metadata their indexer stores: a PDF chunk
\* (pdf_ingestion.py:180-185 and pg_retrieve.py:54-58), a slide chunk
\* (pptx_ingestion.py:236-247), a page of the on-disk index
\* (rag/ingest.py:131-136), a transcript segment (video_segments.py:82-90),
\* a hit without metadata, a hit whose content_id is not a uuid.
PdfHit ==
    [text |-> HitText("t1", 0, 1100, 0), score |-> 11,
     metadata |-> [doc_type |-> "pdf", page_start |-> 3, page_end |-> 3,
                   original_filename |-> "midterm.pdf",
                   content_id |-> "str(c1)", course_id |-> "str(courseA)",
                   category |-> "exams"]]
SlideHit ==
    [text |-> HitText("t2", 0, 300, 0), score |-> 7,
     metadata |-> [doc_type |-> "slides", source_kind |-> "pptx",
                   page_start |-> 5, page_end |-> 5, slide_no |-> 5,
                   original_filename |-> "lecture.pptx", title |-> "Intro",
                   content_id |-> "str(c2)", course_id |-> "str(courseA)",
                   category |-> "notes"]]
IndexPageHit ==
    [text |-> HitText("t3", 2, 897, 3), score |-> 5,
     metadata |-> [content_id |-> "str(c3)", title |-> "Lecture 3",
                   original_filename |-> "lecture3.pdf", page |-> 2]]
SegmentHit ==
    [text |-> HitText("t4", 0, 40, 0), score |-> 3,
     metadata |-> [doc_type |-> "segment", course_id |-> "str(courseA)",
                   video_asset_id |-> "str(v1)", video_guid |-> "guid",
                   start_sec |-> 12, end_sec |-> 30, language_code |-> "en"]]
BareHit == [text |-> HitText("t5", 0, 10, 0), score |-> 2, metadata |-> << >>]
OddIdHit ==
    [text |-> HitText("t6", 0, 0, 0), score |-> 1,
     metadata |-> [content_id |-> "not-a-uuid", chapter_title |-> "Week 1"]]

HitCycle == << PdfHit, SlideHit, IndexPageHit, SegmentHit, BareHit, OddIdHit >>

\* the hit lists a retrieval may return
HitLists == {Window(HitCycle, t, k) : t \in 1..Len(HitCycle), k \in 0..MaxHits}

\* retrieve_course_hits raises, or returns a list of hits
Retrievals ==
    {[raised |-> TRUE, hits |-> << >>]} \cup
    {[raised |-> FALSE, hits |-> h] : h \in HitLists}

\* llm.ainvoke raises, or returns a message whose content is None, empty,
\* whitespace only, or a text
LlmResults ==
    {[raised |-> TRUE, content |-> None]} \cup
    {[raised |-> FALSE, content |-> c] :
        c \in {None, Str(0, "", 0), Str(2, "", 1), Str(1, "answer", 1)}}

\* ChatHistoryItem(role, content); the content stands for the message
ChatHistoryItem(role, body) == [role |-> role, content |-> body]

\* (item.role or "").strip().lower()
RoleOf(role) ==
    CASE role = " User" -> "user" [] role = "Assistant " -> "assistant"
      [] OTHER -> role

HistoryCycle ==
    << ChatHistoryItem("user", "m1"), ChatHistoryItem("assistant", "m2"),
       ChatHistoryItem(" User", "m3"), ChatHistoryItem("Assistant ", "m4"),
       ChatHistoryItem("system", "m5") >>

\* the history lists a caller passes
Histories ==
    {Window(HistoryCycle, t, k) : t \in 1..Len(HistoryCycle), k \in 0..MaxHistory}

\* user_id: int | None and course_id: UUID | None
UserIdArgs == {[none |-> TRUE, id |-> 0], [none |-> FALSE, id |-> 0],
               [none |-> FALSE, id |-> 1]}
CourseIdArgs == {[none |-> TRUE, id |-> ""], [none |-> FALSE, id |-> "courseA"]}

\* API keys of the settings: unset, whitespace only, a key
ApiKeys == {None, Str(1, "", 1), Str(0, "key", 1)}

\* settings of a process that serves chat: CHAT_HISTORY_MAX_MESSAGES is
\* greater than 0 (settings.py:110-111)
ChatSettings ==
    [rag_enabled : BOOLEAN, s3_bucket : {TRUE},
     google_api_key : ApiKeys, gemini_api_key : {None, Str(0, "key2", 0)},
     chat_history_max_messages : 1..MaxHistory]

\* _effective_api_key without its raise: "" when no key is set
EffectiveKey(s) ==
    IF Truthy(str_strip(OrEmpty(s.google_api_key)))
    THEN str_strip(OrEmpty(s.google_api_key))
    ELSE str_strip(OrEmpty(s.gemini_api_key))

\* _effective_api_key raises ValueError
MissingKey(s) == ~Truthy(EffectiveKey(s))

\* the messages of a prompt
SystemMessage(body) == [type |-> "system", content |-> body]
HumanMessage(body) == [type |-> "human", content |-> body]
AIMessage(body) == [type |-> "ai", content |-> body]

\* the content of a message made of one text
TextOf(id) == [kind |-> "text", text |-> id]

\* _build_system_prompt
build_system_prompt(course_name, course_description) ==
    LET desc == str_strip(OrEmpty(course_description))
    IN [kind |-> "system_prompt", course_name |-> course_name,
        description |-> IF Truthy(desc) THEN desc.core ELSE "(none)"]

\* lines 67-69: the excerpt of a hit in the prompt
PromptSnippet(text) ==
    [id |-> text.id,
     len |-> IF text.body > SnippetChars THEN SnippetChars ELSE text.body,
     ellipsis |-> text.body > SnippetChars]

\* lines 71-88: the parts of the Source line of an excerpt
SourceParts(meta) ==
    SelectSeq(<<"original_filename", "page", "video_asset_id", "chapter_title">>,
              LAMBDA key : Has(meta, key))

\* only the first hit is put in the prompt
build_rag_context_prompt_FirstOnly(hits) ==
    [kind |-> "rag_context",
     excerpts |-> <<[no |-> 1, snippet |-> PromptSnippet(hits[1].text),
                     source |-> SourceParts(hits[1].metadata)]>>]

\* _build_rag_context_prompt: one numbered excerpt per hit
build_rag_context_prompt(hits) ==
    [kind |-> "rag_context",
     excerpts |-> [i \in 1..Len(hits) |->
                     [no |-> i, snippet |-> PromptSnippet(hits[i].text),
                      source |-> SourceParts(hits[i].metadata)]]]

\* (hit.text or "")[:900]
CitationSnippet(text) ==
    LET n == text.pre + text.body + text.post
    IN [id |-> text.id, len |-> IF n > SnippetChars THEN SnippetChars ELSE n]

\* lines 101-117: the extra of a citation
CitationExtra(hit) ==
    LET meta == hit.metadata
        base == [page |-> Get(meta, "page"),
                 original_filename |-> Get(meta, "original_filename"),
                 score |-> <<hit.score>>,
                 doc_type |-> Get(meta, "doc_type")]
    IN IF Has(meta, "video_asset_id")
       THEN base @@ [type |-> <<"video">>,
                     videoAssetId |-> Get(meta, "video_asset_id"),
                     startSec |-> Get(meta, "start_sec"),
                     endSec |-> Get(meta, "end_sec"),
                     languageCode |-> Get(meta, "language_code"),
                     chapterTitle |-> Get(meta, "chapter_title")]
       ELSE base

\* lines 94-126: the citation of a hit
ChatCitation(hit) ==
    LET meta == hit.metadata
    IN [content_id |-> IF Has(meta, "content_id") THEN UuidOf(meta.content_id)
                       ELSE << >>,
        title |-> IF Has(meta, "title") THEN Get(meta, "title")
                  ELSE Get(meta, "chapter_title"),
        url |-> << >>,
        snippet |-> CitationSnippet(hit.text),
        extra |-> CitationExtra(hit)]

\* _hits_to_citations
hits_to_citations(hits) == [i \in 1..Len(hits) |-> ChatCitation(hits[i])]

\* the first max_n items are kept
LastN_FirstN(history, max_n) ==
    IF max_n > 0
    THEN SubSeq(history, 1, IF Len(history) < max_n THEN Len(history) ELSE max_n)
    ELSE << >>

\* line 231: history[-max_n:] if max_n > 0 else []
LastN(history, max_n) ==
    IF max_n > 0
    THEN SubSeq(history, IF Len(history) > max_n THEN Len(history) - max_n + 1 ELSE 1,
                Len(history))
    ELSE << >>

\* lines 209-215: the messages of the history items; an item of another role
\* gives none
RECURSIVE HistoryMessages(_)
HistoryMessages(history) ==
    IF history = << >> THEN << >>
    ELSE LET item == Head(history)
             role == RoleOf(item.role)
         IN (IF role = "user" THEN <<HumanMessage(TextOf(item.content))>>
             ELSE IF role = "assistant" THEN <<AIMessage(TextOf(item.content))>>
             ELSE << >>) \o HistoryMessages(Tail(history))

\* _to_lc_messages
to_lc_messages(system_prompt, history, user_message) ==
    <<SystemMessage(system_prompt)>> \o HistoryMessages(history)
       \o <<HumanMessage(TextOf(user_message))>>

\* messages.insert(1, m)
InsertSecond(messages, m) == <<Head(messages), m>> \o Tail(messages)

\* the output of the model is returned as it is
ReplyText_NoFallback(output) == str_strip(OrEmpty(output)).core

\* lines 264-265: the stripped output, or the fallback message
ReplyText(output) ==
    LET text == str_strip(OrEmpty(output))
    IN IF Truthy(text) THEN text.core ELSE FallbackMessage

\* the outcome of one call of generate_reply with its keyword arguments, for
\* what retrieve_course_hits and llm.ainvoke do in it
GenerateReply(s, user_id, course_id, course_name, course_description, history, user_message, retrieval, llm) ==
    LET capped == LastN(history, s.chat_history_max_messages)
        system_prompt == build_system_prompt(course_name, course_description)
        messages == to_lc_messages(system_prompt, capped, user_message)
        rag == s.rag_enabled /\ ~user_id.none /\ user_id.id # 0 /\ ~course_id.none
        hits == IF rag /\ ~retrieval.raised THEN retrieval.hits ELSE << >>
        sent == IF hits # << >>
                THEN InsertSecond(messages,
                                  SystemMessage(build_rag_context_prompt(hits)))
                ELSE messages
        citations == IF hits # << >> THEN hits_to_citations(hits) ELSE << >>
        none == [outcome |-> "ValueError", retrieved |-> FALSE, hits |-> << >>,
                 sent |-> << >>, text |-> "", citations |-> << >>]
    IN IF MissingKey(s) THEN none
       ELSE IF llm.raised
       THEN [none EXCEPT !.outcome = "Exception", !.retrieved = rag,
                         !.hits = hits, !.sent = sent]
       ELSE [outcome |-> "returned", retrieved |-> rag, hits |-> hits,
             sent |-> sent, text |-> ReplyText(llm.content),
             citations |-> citations]

\* the engine of a process whose settings are any a process can have
InitEngine ==
    /\ settings \in ChatSettings
    /\ pptx_importable = TRUE
    /\ content = [c \in ContentIds |-> NoContent]
    /\ s3 = [c \in ContentIds |-> NoObject]
    /\ pages = [c \in ContentIds |-> << >>]
    /\ chunks = [c \in ContentIds |-> << >>]
    /\ run = [c \in ContentIds |-> IdleRun]
    /\ log = [c \in ContentIds |-> << >>]
    /\ response = 0
    /\ uploads = [c \in ContentIds |-> 0]
    /\ deleted = {}
    /\ OthersIdle

\* course descriptions: None, whitespace only, a text
Descriptions == {None, Str(1, "", 0), Str(0, "linear algebra", 1)}

\* ChatEngine(settings).generate_reply(...) is called once
generate_reply ==
    /\ ~chat.done
    /\ \E user_id \in UserIdArgs, course_id \in CourseIdArgs,
          description \in Descriptions, history \in Histories,
          retrieval \in Retrievals, llm \in LlmResults :
         LET r == GenerateReply(settings, user_id, course_id, "Course",
                                description, history, "q", retrieval, llm)
         IN chat' = [done |-> TRUE, n |-> 1, op |-> "generate_reply",
                     user_id |-> user_id, course_id |-> course_id,
                     history |-> history, user_message |-> "q",
                     retrieval |-> retrieval, llm |-> llm,
                     outcome |-> r.outcome, retrieved |-> r.retrieved,
                     hits |-> r.hits, sent |-> r.sent, text |-> r.text,
                     citations |-> r.citations]
    /\ UNCHANGED <<settings, pptx_importable, content, s3, pages, chunks, run,
                   log, response, uploads, deleted, call, merged, asset,
                   segments, ingest, auth, video, race>>

NextEngine == generate_reply

SpecEngine == InitEngine /\ [][NextEngine]_vars

----
(* POST /courses/{course_id}/chat (app/api/v1/chat.py) *)

\* conversationId of a request: absent, not the text of a uuid, the id of a
\* conversation that is not stored, the id of conversation k1
ConversationArgs ==
    {None, Str(0, "not-a-uuid", 0), Str(0, "str(k9)", 0), Str(0, "str(k1)", 0)}

\* UUID(str(body.conversation_id)); << >> on ValueError
ConversationUuid(arg) ==
    CASE arg.core = "str(k1)" -> <<"k1">> [] arg.core = "str(k9)" -> <<"k9">>
      [] OTHER -> << >>

\* the messages of a request after validation, by their number of words
Messages == {[text |-> "q1", words |-> 1], [text |-> "q3", words |-> 3]}

\* generate_title: llm.ainvoke raises, or returns a text of so many words
TitleResults ==
    {[raised |-> TRUE, words |-> 0]} \cup
    {[raised |-> FALSE, words |-> w] : w \in {0, 4, 7}}

\* _enforce_title_constraints, by the number of words: << >> for None
enforce_title_constraints(words, fallback_words) ==
    LET w == IF words < 3 THEN fallback_words ELSE words
        kept == IF w > 5 THEN 5 ELSE w
    IN IF w = 0 \/ kept < 3 THEN << >>
       ELSE <<[words |-> kept,
               of |-> IF words < 3 THEN "message" ELSE "model"]>>

\* chat.py:102-111: the title given to a new conversation, best effort
GeneratedTitle(s, title, message) ==
    IF MissingKey(s) \/ title.raised THEN << >>
    ELSE enforce_title_constraints(title.words, message.words)

\* chat.py:67-77: the last max_n messages of a conversation, oldest first
LoadHistory(rows, conversation_id, max_n) ==
    LET mine == SelectSeq(rows, LAMBDA m : m.conversation_id = conversation_id)
        first == IF Len(mine) > max_n THEN Len(mine) - max_n + 1 ELSE 1
    IN [i \in 1..(Len(mine) - first + 1) |->
          ChatHistoryItem(mine[first + i - 1].role, mine[first + i - 1].content)]

\* the parameters of generate_reply (chat_engine.py:219-228) and the keyword
\* arguments of its call (chat.py:113-121)
Parameters ==
    {"user_id", "course_id", "course_name", "course_description", "history",
     "user_message"}
Keywords == Parameters \cup {"rag_hits"}

\* a call with a keyword argument the function does not take raises
\* TypeError before the function runs
UnexpectedKeyword == Keywords \ Parameters # {}

\* chat.py:122-125: the status of the exception of the try block
StatusOf(outcome) ==
    CASE outcome = "returned" -> 200
      [] outcome = "ValueError" -> 501
      [] OTHER -> 502

\* a ChatMessage row
ChatMessageRow(conversation_id, role, body) ==
    [conversation_id |-> conversation_id, role |-> role, content |-> body]

\* the rows of both chat tables
Store(conversations, messages) ==
    [conversations |-> conversations, messages |-> messages]

\* session.py:51-54: the session of a request is closed when the request
\* ends; what it added and flushed is stored only if it was committed
SessionEnd_Autocommit(stored, pending, committed) == pending

SessionEnd(stored, pending, committed) ==
    IF committed THEN pending ELSE stored

\* what a request leaves: its answer, the rows its session held when it
\* ended, and the rows of chat_conversations and chat_messages after it
Answered(req, status, text, citations, pending, committed) ==
    LET stored == Store(chat.conversations, chat.messages)
        left == SessionEnd(stored, pending, committed)
    IN /\ chat' = req @@ [done |-> TRUE, n |-> chat.n + 1,
                          op |-> "course_chat",
                          status |-> status, text |-> text,
                          citations |-> citations, pending |-> pending,
                          conversations |-> left.conversations,
                          messages |-> left.messages]
       /\ response' = status

\* a request that raised before it added a row
Rejected(req, status) ==
    Answered(req, status, "", << >>,
             Store(chat.conversations, chat.messages), FALSE)

\* the fields of a request that ended before retrieval
Early(course_found, conversation_id, message) ==
    [course_found |-> course_found, conversation_id |-> conversation_id,
     message |-> message, retrieved |-> FALSE,
     retrieval |-> [raised |-> FALSE, hits |-> << >>], rag_hits |-> << >>,
     title |-> << >>, llm |-> [raised |-> FALSE, content |-> None],
     outcome |-> "HTTPException", sent |-> << >>]

\* the database of a process that serves chat: no conversation yet
InitChat ==
    /\ settings \in ChatSettings
    /\ pptx_importable = TRUE
    /\ content = [c \in ContentIds |-> NoContent]
    /\ s3 = [c \in ContentIds |-> NoObject]
    /\ pages = [c \in ContentIds |-> << >>]
    /\ chunks = [c \in ContentIds |-> << >>]
    /\ run = [c \in ContentIds |-> IdleRun]
    /\ log = [c \in ContentIds |-> << >>]
    /\ response = 0
    /\ uploads = [c \in ContentIds |-> 0]
    /\ deleted = {}
    /\ OthersIdle

\* what a collaborator of the request does: one of its results when the
\* request calls it, and nothing to choose from when it does not (retrieval
\* runs only with RAG_ENABLED, chat.py:84; a title is generated only for a
\* new conversation, chat.py:64; the model and the index are reached only
\* inside generate_reply)
Asked(called, results, uncalled) == IF called THEN results ELSE {uncalled}

\* one request.  retrieval is what retrieve_course_chunk_hits does, title
\* and llm what the language model does when it is asked for a title and
\* for a reply, index what retrieve_course_hits does.
course_chat ==
    /\ chat.n < MaxRequests
    /\ \E course_found \in BOOLEAN, conversation_id \in ConversationArgs,
          message \in Messages :
         LET early == Early(course_found, conversation_id, message)
             given == ~conversation_id.none /\ Truthy(conversation_id)
             uuid == ConversationUuid(conversation_id)
         IN IF ~course_found THEN Rejected(early, 404)
            ELSE IF given /\ uuid = << >> THEN Rejected(early, 400)
            ELSE IF given /\ uuid[1] \notin chat.conversations
            THEN Rejected(early, 404)
            ELSE \E retrieval \in Asked(settings.rag_enabled, Retrievals,
                                        early.retrieval),
                    title \in Asked(~given, TitleResults,
                                    [raised |-> TRUE, words |-> 0]),
                    llm \in Asked(~UnexpectedKeyword, LlmResults,
                                  [raised |-> FALSE, content |-> None]),
                    index \in Asked(~UnexpectedKeyword, Retrievals,
                                    [raised |-> TRUE, hits |-> << >>]) :
              LET created_new_conversation == ~given
                  conversation == IF given THEN uuid[1] ELSE "k1"
                  history == LoadHistory(chat.messages, conversation,
                                         settings.chat_history_max_messages)
                  rag_hits == IF settings.rag_enabled /\ ~retrieval.raised
                              THEN retrieval.hits ELSE << >>
                  new_title == IF created_new_conversation
                               THEN GeneratedTitle(settings, title, message)
                               ELSE << >>
                  r == IF UnexpectedKeyword
                       THEN [outcome |-> "TypeError", sent |-> << >>,
                             text |-> "", citations |-> << >>]
                       ELSE GenerateReply(settings, [none |-> FALSE, id |-> 1],
                                          [none |-> FALSE, id |-> "courseA"],
                                          "Course", None, history,
                                          message.text, index, llm)
                  req == [early EXCEPT
                            !.retrieved = settings.rag_enabled,
                            !.retrieval = IF settings.rag_enabled THEN retrieval
                                          ELSE early.retrieval,
                            !.rag_hits = rag_hits, !.title = new_title,
                            !.llm = llm, !.outcome = r.outcome,
                            !.sent = r.sent]
                  \* chat.py:59-63 and 79: the rows added before the reply
                  added == Store(chat.conversations \cup {conversation},
                                 chat.messages \o
                                   <<ChatMessageRow(conversation, "user",
                                                    message.text)>>)
                  \* chat.py:127-132: the reply is added and all is committed
                  replied == Store(added.conversations,
                                   added.messages \o
                                     <<ChatMessageRow(conversation, "assistant",
                                                      r.text)>>)
              IN IF r.outcome = "returned"
                 THEN Answered(req, 200, r.text, r.citations, replied, TRUE)
                 ELSE Answered(req, StatusOf(r.outcome), "", << >>, added,
                               FALSE)
    /\ UNCHANGED <<settings, pptx_importable, content, s3, pages, chunks, run,
                   log, uploads, deleted, call, merged, asset, segments,
                   ingest, auth, video, race>>

NextChat == course_chat

SpecChat == InitChat /\ [][NextChat]_vars

----
(* /auth/login, /auth/refresh and /auth/logout (app/api/v1/auth.py) *)

\* the tokens create_refresh_token can return
MaxTokens == 3
\* /auth/login and /auth/refresh requests of a behaviour
MaxAuthRequests == 3

Tokens == 1..MaxTokens
\* the requests that are served at the same time
Clients == {"a", "b"}
\* the refresh cookie of a request that carries none
NoCookie == 0

\* no document is stored and no ingestion runs
NoIngestion ==
    /\ pptx_importable = TRUE
    /\ content = [c \in ContentIds |-> NoContent]
    /\ s3 = [c \in ContentIds |-> NoObject]
    /\ pages = [c \in ContentIds |-> << >>]
    /\ chunks = [c \in ContentIds |-> << >>]
    /\ run = [c \in ContentIds |-> IdleRun]
    /\ log = [c \in ContentIds |-> << >>]
    /\ response = 0
    /\ uploads = [c \in ContentIds |-> 0]
    /\ deleted = {}

\* security.py:51-57: the keyed digest of a token
hash_refresh_token(token) == <<"hmac-sha256", token>>

\* a refresh_sessions row as login, signup and refresh add it: not revoked,
\* replaced by no row (0 for NULL; the ids of rows start at 1).  expired is
\* expires_at <= now.
RefreshSession(id, token_hash) ==
    [id |-> id, token_hash |-> token_hash, expired |-> FALSE,
     revoked |-> FALSE, replaced_by_id |-> 0]

\* refresh_session.py:25, ix_refresh_sessions_token_hash: token_hash is
\* unique; an insert of a second row with it raises IntegrityError
UniqueTokenHash_NotEnforced(rows, token_hash) == TRUE

UniqueTokenHash(rows, token_hash) ==
    \A i \in DOMAIN rows : rows[i].token_hash # token_hash

\* auth.py:164-170: the ids of the rows the select of refresh returns
LiveSessions_Revoked(rows, token_hash) ==
    {i \in DOMAIN rows : rows[i].token_hash = token_hash /\ ~rows[i].expired}

LiveSessions(rows, token_hash) ==
    {i \in DOMAIN rows : /\ rows[i].token_hash = token_hash
                         /\ ~rows[i].revoked
                         /\ ~rows[i].expired}

\* the token was presented to a refresh that succeeded: its row points at
\* the row that replaced it
Rotated(rows, token) ==
    \E i \in DOMAIN rows : /\ rows[i].token_hash = hash_refresh_token(token)
                           /\ rows[i].replaced_by_id # 0

\* a client between requests, and what it holds of its last request: the
\* token it presented and whether that token was a rotated one when the
\* request began, the row it selected, the status of the answer and the
\* token of the refresh cookie the answer set
IdleClient ==
    [pc |-> "idle", presented |-> NoCookie, replay |-> FALSE, session |-> 0,
     status |-> 0, issued |-> NoCookie]

Done(me, status, issued) ==
    [me EXCEPT !.pc = "done", !.status = status, !.issued = issued]

\* auth.py:190-192: the old row is revoked and points at the new one.  The
\* UPDATE names the row by its id alone.
Rotate(rows, old, new_id, token_hash) ==
    Append([rows EXCEPT ![old].revoked = TRUE, ![old].replaced_by_id = new_id],
           RefreshSession(new_id, token_hash))

\* the database of a process that serves authentication: one user, active or
\* not, who has not logged in yet
InitAuth ==
    /\ settings = [rag_enabled |-> FALSE, s3_bucket |-> TRUE]
    /\ NoIngestion
    /\ call = NoCall /\ merged = NoMerge /\ asset = NoAsset
    /\ segments = << >> /\ ingest = NoIngest /\ chat = NoChat
    /\ video = NoVideo /\ race = NoRace
    /\ \E is_active \in BOOLEAN :
         auth = [sessions |-> << >>, n |-> 0,
                 is_active |-> is_active,
                 proc |-> [p \in Clients |-> IdleClient]]

AuthFrame ==
    UNCHANGED <<settings, pptx_importable, content, s3, pages, chunks, run,
                log, uploads, deleted, call, merged, asset, segments, ingest,
                chat, video, race>>

\* POST /auth/login, auth.py:51-88.  login does not look at is_active.
login ==
    /\ auth.n < MaxAuthRequests
    /\ \E valid \in BOOLEAN, refresh_token \in Tokens :
         LET h == hash_refresh_token(refresh_token)
             id == Len(auth.sessions) + 1
         IN IF ~valid
            THEN /\ response' = 401
                 /\ auth' = [auth EXCEPT !.n = @ + 1]
            ELSE IF ~UniqueTokenHash(auth.sessions, h)
            THEN /\ response' = 500
                 /\ auth' = [auth EXCEPT !.n = @ + 1]
            ELSE /\ response' = 200
                 /\ auth' = [auth EXCEPT
                               !.n = @ + 1,
                               !.sessions = Append(@, RefreshSession(id, h))]
    /\ AuthFrame

\* POST /auth/refresh up to the rotation, auth.py:157-176: the cookie, the
\* select of the live session of its digest, the select of the user
refresh_select(p) ==
    /\ auth.proc[p].pc # "selected"
    /\ auth.n < MaxAuthRequests
    /\ \E refresh_token \in Tokens \cup {NoCookie} :
         LET live == LiveSessions(auth.sessions,
                                  hash_refresh_token(refresh_token))
             rejected == \/ refresh_token = NoCookie
                         \/ live = {}
                         \/ ~auth.is_active
             session == IF live = {} THEN 0 ELSE CHOOSE i \in live : TRUE
             me == [pc |-> "selected", presented |-> refresh_token,
                    replay |-> Rotated(auth.sessions, refresh_token),
                    session |-> session, status |-> 0, issued |-> NoCookie]
         IN /\ auth' = [auth EXCEPT
                          !.n = @ + 1,
                          !.proc[p] = IF rejected THEN Done(me, 401, NoCookie)
                                      ELSE me]
            /\ response' = IF rejected THEN 401 ELSE response
    /\ AuthFrame

\* POST /auth/refresh from the rotation on, auth.py:178-209: the new row is
\* flushed, the old one updated, both committed, the cookies set
refresh_rotate(p) ==
    /\ auth.proc[p].pc = "selected"
    /\ \E new_refresh_token \in Tokens :
         LET h == hash_refresh_token(new_refresh_token)
             me == auth.proc[p]
             id == Len(auth.sessions) + 1
         IN IF ~UniqueTokenHash(auth.sessions, h)
            THEN /\ response' = 500
                 /\ auth' = [auth EXCEPT
                               !.proc[p] = Done(me, 500, NoCookie)]
            ELSE /\ response' = 200
                 /\ auth' = [auth EXCEPT
                               !.sessions = Rotate(@, me.session, id, h),
                               !.proc[p] = Done(me, 200, new_refresh_token)]
    /\ AuthFrame

\* POST /auth/logout, auth.py:212-232
logout ==
    /\ \E refresh_token \in Tokens :
         LET found == {i \in DOMAIN auth.sessions :
                         auth.sessions[i].token_hash =
                           hash_refresh_token(refresh_token)}
         IN /\ found # {}
            /\ LET i == CHOOSE i \in found : TRUE
               IN /\ ~auth.sessions[i].revoked
                  /\ auth' = [auth EXCEPT !.sessions[i].revoked = TRUE]
    /\ response' = 200
    /\ AuthFrame

\* the time passes expires_at of a row
expire ==
    /\ \E i \in DOMAIN auth.sessions :
         /\ ~auth.sessions[i].expired
         /\ auth' = [auth EXCEPT !.sessions[i].expired = TRUE]
    /\ UNCHANGED response
    /\ AuthFrame

NextAuth ==
    \/ login
    \/ \E p \in Clients : refresh_select(p)
    \/ \E p \in Clients : refresh_rotate(p)
    \/ logout
    \/ expire

SpecAuth == InitAuth /\ [][NextAuth]_vars

----
(* Video uploads and transcription requests (app/api/v1/video_assets.py,  *)
(* app/api/v1/media_assets.py) and the transcription job as far as it     *)
(* writes video_assets (app/services/transcription.py).  The rows of      *)
(* transcript_segments a job writes are the subject of SpecTranscript.    *)

\* finalize and transcribe requests of a behaviour
MaxVideoRequests == 3

\* source_file_key of a finalize request of user 1: a key of the user, the
\* same key between blanks, a second key, a key of another user, blanks
FileKeys ==
    {Str(0, "users/1/a", 0), Str(1, "users/1/a", 1), Str(0, "users/1/b", 0),
     Str(0, "users/2/a", 0), Str(1, "", 0)}

\* file_key.startswith("users/1/")
InNamespace(key) == key \in {"users/1/a", "users/1/b"}

\* mime_type of a finalize request, stripped: none, a video type, another
MimeTypes == {"", "video/mp4", "text/plain"}

IsVideoType(mt) == mt = "video/mp4"

\* a course_contents row of finalize, video_assets.py:273-282
VideoContent(id, file_key, mt) ==
    [id |-> id, category |-> "media", file_key |-> file_key, mime_type |-> mt]

\* a video_assets row of finalize, video_assets.py:286-295
UploadedAsset(id, content_id, file_key) ==
    [id |-> id, content_id |-> content_id, provider |-> "local",
     source_file_key |-> file_key, status |-> "uploaded",
     transcription_error |-> NULL, transcription_started_at |-> NULL,
     transcription_completed_at |-> NULL, transcript_ingested_at |-> NULL]

\* select(VideoAsset).where(course_id, source_file_key): the ids of the rows
Registered(rows, file_key) ==
    {i \in DOMAIN rows : rows[i].source_file_key = file_key}

\* uq_video_assets_course_provider_source_key: the insert of a row raises
\* IntegrityError if a row of the course has its provider and key
UniqueSourceKey_NotEnforced(rows, new) == TRUE

UniqueSourceKey(rows, new) ==
    \A i \in DOMAIN rows :
       ~(rows[i].provider = new.provider
         /\ rows[i].source_file_key = new.source_file_key)

\* video_assets.py:87-89
is_video_content(c) == c.category = "media" /\ IsVideoType(c.mime_type)

\* the UPDATE of a commit: the attributes the session assigned a value other
\* than the one it had loaded, written to the row as it is stored
Flush(row, loaded, assigned) ==
    [f \in DOMAIN row |->
       IF f \in DOMAIN assigned /\ assigned[f] # loaded[f] THEN assigned[f]
       ELSE row[f]]

\* the object of a session after it assigned the attributes
Assign(loaded, assigned) ==
    [f \in DOMAIN loaded |->
       IF f \in DOMAIN assigned THEN assigned[f] ELSE loaded[f]]

\* the statuses in which a start request returns without a change:
\* video_assets.py:428-431 and media_assets.py:216-217
InProgress_None(api, status, force) == FALSE

InProgress(api, status, force) ==
    IF api = "video"
    THEN \/ status \in {"processing", "extracting_audio", "transcribing"}
         \/ status = "done" /\ ~force
    ELSE status = "processing"

\* the attributes a start request assigns: video_assets.py:433-447 and
\* media_assets.py:219-222
StartAssigned(api, loaded, force) ==
    IF api = "media"
    THEN [status |-> "processing", transcription_error |-> NULL,
          transcription_started_at |-> NOW]
    ELSE [status |-> "extracting_audio", transcription_error |-> NULL,
          transcription_started_at |-> NOW]
         @@ (IF loaded.status \in {"error", "done"} /\ force
             THEN [transcription_completed_at |-> NULL,
                   transcript_ingested_at |-> NULL]
             ELSE [status |-> "extracting_audio"])

\* a client between requests, and what it holds of its last request: the
\* request, the object it loaded, the status of the answer, the ids of the
\* rows the answer names, whether it scheduled a job, whether it returned
\* without a change, whether its commit raised IntegrityError
IdleRequest ==
    [pc |-> "idle", op |-> "", api |-> "", key |-> "", mt |-> "",
     kickoff |-> FALSE, force |-> FALSE, loaded |-> << >>, status |-> 0,
     asset |-> 0, content |-> 0, scheduled |-> FALSE, noop |-> FALSE,
     conflict |-> FALSE]

Answer(me, status, asset_id, content_id) ==
    [me EXCEPT !.pc = "done", !.status = status, !.asset = asset_id,
               !.content = content_id]

\* a request that was rejected, by its kind and its status
Fail(me, status) ==
    [IdleRequest EXCEPT !.pc = "done", !.op = me.op, !.api = me.api,
                        !.status = status]

\* background_tasks.add_task(...): a job in flight.  The job of both
\* requests is taken to be transcribe_media_asset.
Job(asset_id) == [asset |-> asset_id, pc |-> "scheduled", loaded |-> << >>]

\* the database of a process that serves video: one course of user 1 and no
\* video yet.  runpod is RUNPOD_API_KEY and RUNPOD_ENDPOINT_ID being set.
InitVideo ==
    /\ \E bucket \in BOOLEAN, runpod \in BOOLEAN :
         settings = [rag_enabled |-> FALSE, s3_bucket |-> bucket,
                     runpod |-> runpod]
    /\ NoIngestion
    /\ call = NoCall /\ merged = NoMerge /\ asset = NoAsset
    /\ segments = << >> /\ ingest = NoIngest /\ chat = NoChat
    /\ auth = NoAuth /\ race = NoRace
    /\ video = [assets |-> << >>, contents |-> << >>, jobs |-> << >>, n |-> 0,
                proc |-> [p \in Clients |-> IdleRequest]]

VideoFrame ==
    UNCHANGED <<settings, pptx_importable, content, s3, pages, chunks, run,
                log, uploads, deleted, call, merged, asset, segments, ingest,
                chat, auth, race>>

Busy(p) == video.proc[p].pc \notin {"idle", "done"}

\* POST /courses/{id}/videos up to the insert, video_assets.py:222-271
finalize_select(p) ==
    /\ ~Busy(p)
    /\ video.n < MaxVideoRequests
    /\ \E course_found \in BOOLEAN, source_file_key \in FileKeys,
          mt \in MimeTypes, kickoff \in BOOLEAN :
         LET file_key == str_strip(source_file_key).core
             me == [IdleRequest EXCEPT !.pc = "inserting", !.op = "finalize",
                                       !.key = file_key, !.mt = mt,
                                       !.kickoff = kickoff]
             existing == Registered(video.assets, file_key)
             answer ==
                 IF ~course_found THEN Fail(me, 404)
                 ELSE IF ~settings.s3_bucket THEN Fail(me, 501)
                 ELSE IF file_key = "" \/ ~InNamespace(file_key)
                 THEN Fail(me, 400)
                 ELSE IF mt # "" /\ ~IsVideoType(mt) THEN Fail(me, 400)
                 ELSE IF existing # {}
                 THEN LET a == video.assets[CHOOSE i \in existing : TRUE]
                      IN Answer(me, 200, a.id, a.content_id)
                 \* _enforce_asset_content_invariants on the new rows
                 ELSE IF ~is_video_content(VideoContent(0, file_key, mt))
                 THEN Fail(me, 400)
                 ELSE me
         IN /\ video' = [video EXCEPT !.n = @ + 1, !.proc[p] = answer]
            /\ response' = IF answer.pc = "done" THEN answer.status
                           ELSE response
    /\ VideoFrame

\* POST /courses/{id}/videos from the commit of both rows on,
\* video_assets.py:273-329
finalize_commit(p) ==
    /\ video.proc[p].pc = "inserting"
    /\ LET me == video.proc[p]
           content_id == Len(video.contents) + 1
           new == UploadedAsset(Len(video.assets) + 1, content_id, me.key)
       IN IF ~UniqueSourceKey(video.assets, new)
          THEN \* IntegrityError: rollback, and the row of the other request
               LET a == video.assets[CHOOSE i \in Registered(video.assets,
                                                            me.key) : TRUE]
               IN /\ video' = [video EXCEPT
                                 !.proc[p] = [Answer(me, 200, a.id, a.content_id)
                                                EXCEPT !.conflict = TRUE]]
                  /\ response' = 200
          ELSE LET rows == [video EXCEPT
                              !.contents = Append(@, VideoContent(content_id,
                                                                  me.key, me.mt)),
                              !.assets = Append(@, new)]
               IN IF ~me.kickoff
                  THEN /\ video' = [rows EXCEPT
                                      !.proc[p] = Answer(me, 200, new.id,
                                                         content_id)]
                       /\ response' = 200
                  ELSE IF ~settings.runpod
                  THEN /\ video' = [rows EXCEPT !.proc[p] = Fail(me, 501)]
                       /\ response' = 501
                  ELSE /\ video' = [rows EXCEPT
                                      !.proc[p] = [me EXCEPT
                                                     !.pc = "kickoff",
                                                     !.loaded = new,
                                                     !.asset = new.id,
                                                     !.content = content_id]]
                       /\ UNCHANGED response
    /\ VideoFrame

\* the attributes the kickoff of finalize assigns, video_assets.py:338-341
KickoffAssigned ==
    [status |-> "extracting_audio", transcription_error |-> NULL,
     transcription_started_at |-> NOW]

\* POST /courses/{id}/videos, the kickoff: video_assets.py:337-350
finalize_kickoff(p) ==
    /\ video.proc[p].pc = "kickoff"
    /\ LET me == video.proc[p]
       IN video' = [video EXCEPT
                      !.assets[me.asset] = Flush(@, me.loaded, KickoffAssigned),
                      !.jobs = Append(@, Job(me.asset)),
                      !.proc[p] = [Answer(me, 200, me.asset, me.content)
                                     EXCEPT !.scheduled = TRUE]]
    /\ response' = 200
    /\ VideoFrame

\* POST /video-assets/{id}/transcribe (api "video", video_assets.py:395-431)
\* and POST /media-assets/{id}/transcribe (api "media",
\* media_assets.py:191-217) up to the check of the status
start_select(p) ==
    /\ ~Busy(p)
    /\ video.n < MaxVideoRequests
    /\ \E api \in {"video", "media"}, id \in 1..(Len(video.assets) + 1),
          force \in BOOLEAN :
         /\ api = "media" => ~force
         /\ LET found == id \in DOMAIN video.assets
                me == [IdleRequest EXCEPT
                         !.pc = "starting", !.op = "start", !.api = api,
                         !.force = force, !.asset = id,
                         !.loaded = IF found THEN video.assets[id] ELSE << >>]
                answer ==
                    IF api = "media" /\ ~settings.runpod THEN Fail(me, 501)
                    ELSE IF ~found THEN Fail(me, 404)
                    ELSE IF api = "video" /\ ~settings.s3_bucket
                    THEN Fail(me, 501)
                    ELSE IF api = "video" /\ ~settings.runpod
                    THEN Fail(me, 501)
                    ELSE IF InProgress(api, me.loaded.status, force)
                    THEN [Answer(me, 200, id, 0) EXCEPT !.noop = TRUE]
                    ELSE me
            IN /\ video' = [video EXCEPT !.n = @ + 1, !.proc[p] = answer]
               /\ response' = IF answer.pc = "done" THEN answer.status
                              ELSE response
    /\ VideoFrame

\* the start request from its commit on: video_assets.py:433-462 and
\* media_assets.py:219-230
start_commit(p) ==
    /\ video.proc[p].pc = "starting"
    /\ LET me == video.proc[p]
           assigned == StartAssigned(me.api, me.loaded, me.force)
       IN video' = [video EXCEPT
                      !.assets[me.asset] = Flush(@, me.loaded, assigned),
                      !.jobs = Append(@, Job(me.asset)),
                      !.proc[p] = [Answer(me, 200, me.asset, 0)
                                     EXCEPT !.scheduled = TRUE]]
    /\ response' = 200
    /\ VideoFrame

\* the job marks the asset processing, transcription.py:221-236
job_begin(j) ==
    /\ video.jobs[j].pc = "scheduled"
    /\ LET loaded == video.assets[video.jobs[j].asset]
           assigned == [status |-> "processing", transcription_error |-> NULL,
                        transcription_started_at |-> NOW]
       IN video' = [video EXCEPT
                      !.assets[loaded.id] = Flush(@, loaded, assigned),
                      !.jobs[j] = [@ EXCEPT !.pc = "running",
                                            !.loaded = Assign(loaded, assigned)]]
    /\ UNCHANGED response
    /\ VideoFrame

\* the sequence without its j-th element
Without(q, j) == SubSeq(q, 1, j - 1) \o SubSeq(q, j + 1, Len(q))

\* the job ends: the segments are stored and the asset is done
\* (transcription.py:383-386), or the job failed (353-358, 387-403)
job_end(j) ==
    /\ video.jobs[j].pc = "running"
    /\ \E failed \in BOOLEAN :
         LET loaded == video.jobs[j].loaded
             assigned ==
                 IF failed
                 THEN [status |-> "error", transcription_error |-> "failed",
                       transcription_completed_at |-> NOW]
                 ELSE [status |-> "done", transcript_ingested_at |-> NOW,
                       transcription_completed_at |-> NOW]
         IN video' = [video EXCEPT
                        !.assets[loaded.id] = Flush(@, loaded, assigned),
                        !.jobs = Without(@, j)]
    /\ UNCHANGED response
    /\ VideoFrame

NextVideo ==
    \/ \E p \in Clients : finalize_select(p)
    \/ \E p \in Clients : finalize_commit(p)
    \/ \E p \in Clients : finalize_kickoff(p)
    \/ \E p \in Clients : start_select(p)
    \/ \E p \in Clients : start_commit(p)
    \/ \E j \in DOMAIN video.jobs : job_begin(j)
    \/ \E j \in DOMAIN video.jobs : job_end(j)

SpecVideo == InitVideo /\ [][NextVideo]_vars

----
(* Two runs of ingest_pdf_content_to_db for one content id at the same     *)
(* time, and a retrieval beside them.  The engine is created without an    *)
(* isolation level (session.py:30-33): PostgreSQL runs every transaction   *)
(* READ COMMITTED.  A statement sees the rows committed when it starts; a  *)
(* DELETE waits for a transaction that has deleted one of its rows and     *)
(* skips the rows that transaction committed as deleted; the INSERTs of a  *)
(* flush are checked against the unique constraints; the UPDATE of a flush *)
(* writes the attributes that were assigned a value other than the loaded  *)
(* one.                                                                    *)

Runners == {"a", "b"}

\* the content item the runs are about
Raced == CHOOSE c \in ContentIds : TRUE

\* the objects stored for the item: the documents of the first pages of the
\* cycle, and bytes that are no PDF
RaceObjects ==
    {[fmt |-> "pdf", units |-> Window(PdfCycle, 1, k)] : k \in 0..MaxPages}
      \cup {CorruptObject}

\* stored rows and the transaction that inserted them ("0": an earlier run)
Inserted(by, rows) == [i \in 1..Len(rows) |-> [by |-> by, row |-> rows[i]]]

RowSet(stored) == {stored[i] : i \in 1..Len(stored)}

\* a statement sees what other transactions deleted and did not commit
Visible_Uncommitted(stored, pending) ==
    SelectSeq(stored, LAMBDA r : r \notin pending)

\* the rows of a table a statement sees while other transactions have
\* deleted the rows pending and not committed
Visible(stored, pending) == stored

\* two pages of a content id may have the same page_no
UniquePageNo_NotEnforced(stored, rows) == TRUE

\* 0013:53, ux_document_pages_content_page_no
UniquePageNo(stored, rows) ==
    \A i \in 1..Len(stored), j \in 1..Len(rows) :
       ~ (/\ stored[i].row.content_id = rows[j].content_id
          /\ stored[i].row.page_no = rows[j].page_no)

\* 0013:77, ux_content_chunks_content_chunk_index
UniqueChunkIndex(stored, rows) ==
    \A i \in 1..Len(stored), j \in 1..Len(rows) :
       ~ (/\ stored[i].row.content_id = rows[j].content_id
          /\ stored[i].row.chunk_index = rows[j].chunk_index)

\* a run that has not started: the row its open session loaded, the
\* exception of the download, the rows it built, the rows its DELETE found,
\* the rows it has deleted and not committed, how it ended
IdleRunner ==
    [pc |-> "idle", loaded |-> NoContent, exc |-> NULL,
     page_rows |-> << >>, chunk_rows |-> << >>, want |-> {},
     del_pages |-> {}, del_chunks |-> {}, outcome |-> "none",
     persisted |-> FALSE]

NoRead == [done |-> FALSE, rows |-> {}, pending |-> {}, committed |-> {}]

\* the run has returned or raised; its transaction, if any, is over
Ended(me, outcome, persisted) ==
    [me EXCEPT !.pc = "ended", !.outcome = outcome, !.persisted = persisted,
               !.want = {}, !.del_pages = {}, !.del_chunks = {}]

\* the rows other transactions have deleted and not committed
PendingPages(k) == UNION {race.run[j].del_pages : j \in Runners \ {k}}
PendingChunks(k) == UNION {race.run[j].del_chunks : j \in Runners \ {k}}

\* a content item with a stored PDF: created and not indexed yet, or
\* indexed by an earlier run that has ended (it raised in the extractor,
\* found no page, or stored its rows)
InitRace ==
    /\ settings = [rag_enabled |-> TRUE, s3_bucket |-> TRUE]
    /\ pptx_importable = TRUE
    /\ \E obj \in RaceObjects, indexed \in BOOLEAN :
         LET queued == [NoContent EXCEPT
                          !.exists = TRUE, !.course_id = "courseA",
                          !.category = "exams", !.file_key = TRUE,
                          !.type = [mime |-> "pdf", ext |-> "pdf"],
                          !.ingestion_status = InitialStatus(TRUE, TRUE)]
             raised == extract_pdf_pages(obj).raised
             extracted == extract_pdf_pages(obj).pages
             page_rows == PdfPageRows(Raced, queued.course_id, extracted)
             chunk_rows == PdfChunkRows(Raced, queued.course_id,
                                        queued.category, extracted, 0)
             row == IF ~indexed THEN queued
                    ELSE IF raised THEN MarkProcessing(queued)
                    ELSE IF extracted = << >>
                    THEN MarkNoPages(MarkProcessing(queued))
                    ELSE MarkOutcome(MarkProcessing(queued),
                                     PdfTotalChars(page_rows))
             stored == indexed /\ extracted # << >>
         IN /\ s3 = [c \in ContentIds |-> obj]
            /\ content = [c \in ContentIds |-> row]
            /\ pages = [c \in ContentIds |->
                          IF stored THEN Inserted("0", page_rows) ELSE << >>]
            /\ chunks = [c \in ContentIds |->
                           IF stored THEN Inserted("0", chunk_rows) ELSE << >>]
            /\ race = [n |-> 0, together |-> FALSE,
                       run |-> [k \in Runners |-> IdleRunner],
                       read |-> NoRead,
                       first |-> [pages |-> IF stored
                                            THEN Inserted("0", page_rows)
                                            ELSE << >>,
                                  chunks |-> IF stored
                                             THEN Inserted("0", chunk_rows)
                                             ELSE << >>],
                       last |-> [by |-> "0", status |-> row.ingestion_status]]
    /\ run = [c \in ContentIds |-> IdleRun]
    /\ log = [c \in ContentIds |-> << >>]
    /\ response = 0
    /\ uploads = [c \in ContentIds |-> 0]
    /\ deleted = {}
    /\ call = NoCall
    /\ merged = NoMerge
    /\ asset = NoAsset
    /\ segments = << >>
    /\ ingest = NoIngest
    /\ chat = NoChat
    /\ auth = NoAuth
    /\ video = NoVideo

RaceFrame ==
    UNCHANGED <<settings, pptx_importable, s3, run, log, response, uploads,
                deleted, call, merged, asset, segments, ingest, chat, auth,
                video>>

\* pdf_ingestion.py:85-101: the guards and the SELECT of the first session;
\* together tells that a run started while another was underway
race_begin(k) ==
    /\ race.run[k].pc = "idle"
    /\ LET row == content[Raced]
           me == race.run[k]
       IN race' = [race EXCEPT
             !.n = @ + 1,
             !.together = @ \/ \E j \in Runners \ {k} :
                                  race.run[j].pc \notin {"idle", "ended"},
             !.run[k] =
                IF \/ ~settings.rag_enabled \/ ~settings.s3_bucket
                   \/ ~row.exists \/ ~row.file_key \/ ~is_pdf(row.type)
                THEN Ended(me, "returned", FALSE)
                ELSE [me EXCEPT !.pc = "mark", !.loaded = row]]
    /\ UNCHANGED <<content, pages, chunks>>
    /\ RaceFrame

\* pdf_ingestion.py:104-110: the row is marked processing and committed
race_mark(k) ==
    /\ race.run[k].pc = "mark"
    /\ LET me == race.run[k]
           assigned == MarkProcessing(me.loaded)
       IN /\ content' = [content EXCEPT ![Raced] = Flush(@, me.loaded, assigned)]
          /\ race' = [race EXCEPT
                !.run[k].pc = "download",
                !.last = [by |-> k, status |-> assigned.ingestion_status]]
    /\ UNCHANGED <<pages, chunks>>
    /\ RaceFrame

\* pdf_ingestion.py:117-189: get_object raises, or the bytes are read, the
\* pages extracted and the rows built in memory
race_download(k) ==
    /\ race.run[k].pc = "download"
    /\ LET me == race.run[k] IN
         \/ \E e \in DownloadErrors :
              race' = [race EXCEPT !.run[k] = [me EXCEPT !.pc = "error",
                                                         !.exc = e]]
         \/ /\ s3[Raced] # NoObject
            /\ LET r == extract_pdf_pages(s3[Raced])
               IN race' = [race EXCEPT !.run[k] =
                     IF r.raised THEN [Ended(me, "raised", FALSE)
                                         EXCEPT !.exc = ExtractError]
                     ELSE IF r.pages = << >> THEN [me EXCEPT !.pc = "no_pages"]
                     ELSE [me EXCEPT
                             !.pc = "delete_pages",
                             !.page_rows =
                                 PdfPageRows(Raced, me.loaded.course_id, r.pages),
                             !.chunk_rows =
                                 PdfChunkRows(Raced, me.loaded.course_id,
                                              me.loaded.category, r.pages, 0)]]
    /\ UNCHANGED <<content, pages, chunks>>
    /\ RaceFrame

\* pdf_ingestion.py:192-193: the two DELETE statements.  A statement finds
\* the rows committed when it starts, waits while another transaction has
\* deleted one of them, and deletes those that are still stored.
race_delete(k) ==
    /\ race.run[k].pc \in {"delete_pages", "wait_pages",
                           "delete_chunks", "wait_chunks"}
    /\ LET me == race.run[k]
           of_pages == me.pc \in {"delete_pages", "wait_pages"}
           starts == me.pc \in {"delete_pages", "delete_chunks"}
           stored == IF of_pages THEN pages[Raced] ELSE chunks[Raced]
           pending == IF of_pages THEN PendingPages(k) ELSE PendingChunks(k)
           want == IF starts THEN RowSet(Visible(stored, pending)) ELSE me.want
           waits == want \cap pending # {}
           found == want \cap RowSet(stored)
       IN /\ starts \/ ~waits
          /\ race' = [race EXCEPT !.run[k] =
                IF waits
                THEN [me EXCEPT !.want = want,
                                !.pc = IF of_pages THEN "wait_pages"
                                       ELSE "wait_chunks"]
                ELSE IF of_pages
                THEN [me EXCEPT !.want = {}, !.del_pages = found,
                                !.pc = "delete_chunks"]
                ELSE [me EXCEPT !.want = {}, !.del_chunks = found,
                                !.pc = "persist"]]
    /\ UNCHANGED <<content, pages, chunks>>
    /\ RaceFrame

\* the SELECT of a session that then writes the status:
\* pdf_ingestion.py:125-126, 137-138 and 203-204
race_select(k) ==
    /\ race.run[k].pc \in {"error", "no_pages", "persist"}
    /\ race' = [race EXCEPT
          !.run[k].loaded = content[Raced],
          !.run[k].pc = CASE race.run[k].pc = "error" -> "error_commit"
                          [] race.run[k].pc = "no_pages" -> "no_pages_commit"
                          [] OTHER -> "persist_commit"]
    /\ UNCHANGED <<content, pages, chunks>>
    /\ RaceFrame

\* pdf_ingestion.py:127-132 and 139-144: the commit of the except branch
\* and of the no-pages branch, and the return
race_update(k) ==
    /\ race.run[k].pc \in {"error_commit", "no_pages_commit"}
    /\ LET me == race.run[k]
           assigned == IF me.pc = "error_commit"
                       THEN MarkDownloadError(me.loaded, me.exc)
                       ELSE MarkNoPages(me.loaded)
       IN /\ content' = [content EXCEPT ![Raced] = Flush(@, me.loaded, assigned)]
          /\ race' = [race EXCEPT
                !.run[k] = Ended(me, "returned", FALSE),
                !.last = [by |-> k, status |-> assigned.ingestion_status]]
    /\ UNCHANGED <<pages, chunks>>
    /\ RaceFrame

\* pdf_ingestion.py:195-214: the flush and the commit of the persist
\* transaction.  An INSERT that meets a stored row with its key raises
\* IntegrityError: the session is closed without a commit and the exception
\* leaves the function.
race_commit(k) ==
    /\ race.run[k].pc = "persist_commit"
    /\ LET me == race.run[k]
           kept_pages == SelectSeq(pages[Raced], LAMBDA r : r \notin me.del_pages)
           kept_chunks == SelectSeq(chunks[Raced], LAMBDA r : r \notin me.del_chunks)
           assigned == MarkOutcome(me.loaded, PdfTotalChars(me.page_rows))
       IN IF /\ UniquePageNo(kept_pages, me.page_rows)
             /\ UniqueChunkIndex(kept_chunks, me.chunk_rows)
          THEN /\ pages' = [pages EXCEPT ![Raced] =
                              kept_pages \o Inserted(k, me.page_rows)]
               /\ chunks' = [chunks EXCEPT ![Raced] =
                               kept_chunks \o Inserted(k, me.chunk_rows)]
               /\ content' = [content EXCEPT ![Raced] =
                                Flush(@, me.loaded, assigned)]
               /\ race' = [race EXCEPT
                     !.run[k] = Ended(me, "returned", TRUE),
                     !.last = [by |-> k, status |-> assigned.ingestion_status]]
          ELSE /\ race' = [race EXCEPT
                     !.run[k] = [Ended(me, "raised", FALSE)
                                   EXCEPT !.exc = "IntegrityError"]]
               /\ UNCHANGED <<content, pages, chunks>>
    /\ RaceFrame

\* the stored object is overwritten: an upload to the key of the item
race_replace ==
    /\ uploads[Raced] < MaxUploads
    /\ \E obj \in RaceObjects \ {s3[Raced]} : s3' = [s3 EXCEPT ![Raced] = obj]
    /\ uploads' = [uploads EXCEPT ![Raced] = @ + 1]
    /\ UNCHANGED <<settings, pptx_importable, content, pages, chunks, run, log,
                   response, deleted, others>>

\* pg_retrieve.py:51: the one SELECT of a retrieval, by the chunk rows of
\* the content id it finds; pending are the chunk rows deleted and not
\* committed at that moment, committed the runs that have stored their rows
race_retrieve ==
    /\ ~race.read.done
    /\ race' = [race EXCEPT !.read =
          [done |-> TRUE,
           rows |-> RowSet(Visible(chunks[Raced], PendingChunks("reader"))),
           pending |-> PendingChunks("reader"),
           committed |-> {k \in Runners : race.run[k].persisted}]]
    /\ UNCHANGED <<content, pages, chunks>>
    /\ RaceFrame

NextRace ==
    \/ \E k \in Runners :
          \/ race_begin(k)
          \/ race_mark(k)
          \/ race_download(k)
          \/ race_delete(k)
          \/ race_select(k)
          \/ race_update(k)
          \/ race_commit(k)
    \/ race_retrieve
    \/ race_replace

SpecRace == InitRace /\ [][NextRace]_vars

----
(* What a caller observes of the runs of a content id *)

Terminal == {"done", "warning", "error"}

\* no task is running and at least one has ended
AfterRun(c) == run[c].pc = "idle" /\ log[c] # << >>

LastRun(c) == log[c][Len(log[c])]

\* the rows stored when the last run started
RowsBefore(c) ==
    IF Len(log[c]) = 1 THEN [pages |-> << >>, chunks |-> << >>]
    ELSE [pages |-> log[c][Len(log[c]) - 1].pages,
          chunks |-> log[c][Len(log[c]) - 1].chunks]

\* the run downloaded and extracted its source and returned normally
Succeeded(e) == e.outcome = "returned" /\ e.exc = NULL /\ e.extracted >= 0

\* the run went past the guards of its ingestion function
Started(e) == e.pc \in {"pdf_download", "pdf_extract", "pdf_persist",
                        "pptx_download", "pptx_extract", "pptx_persist"}

NoDuplicates(pg, ch) ==
    /\ \A i, j \in 1..Len(pg) : i # j => pg[i].page_no # pg[j].page_no
    /\ \A i, j \in 1..Len(ch) : i # j => ch[i].chunk_index # ch[j].chunk_index

NoOrphans(c, pg, ch) ==
    /\ \A i \in 1..Len(pg) : pg[i].content_id = c /\ content[c].exists
    /\ \A i \in 1..Len(ch) :
         /\ ch[i].content_id = c /\ content[c].exists
         /\ \E k \in 1..Len(pg) : pg[k].page_no = ch[i].meta.page_start

StoredChars(pg) == SumSeq([i \in 1..Len(pg) |-> TextLen(pg[i].text)])

----
(* Claims *)

\* C1: two runs in succession on the same, unchanged source leave the rows
\* of a single run: same page numbers and texts, same chunks in the same
\* order, no duplicate row and no orphaned row.
C1_Idempotent ==
    \A c \in ContentIds : \A i \in 1..(Len(log[c]) - 1) :
       LET a == log[c][i]
           b == log[c][i + 1]
       IN (Succeeded(a) /\ Succeeded(b) /\ a.bytes = b.bytes) =>
             /\ b.pages = a.pages
             /\ b.chunks = a.chunks
             /\ NoDuplicates(b.pages, b.chunks)
             /\ NoOrphans(c, b.pages, b.chunks)

\* C1 witness: a second run on the same source has rebuilt pages and chunks
C1_Witness ==
    \E c \in ContentIds :
       /\ Len(log[c]) >= 2
       /\ Succeeded(log[c][1]) /\ Succeeded(log[c][2])
       /\ log[c][1].bytes = log[c][2].bytes
       /\ log[c][2].pc \in {"pdf_persist", "pptx_persist"}
       /\ Len(log[c][2].chunks) >= 2

\* C2: after every run that extracted its source, the stored rows are
\* exactly the rows of that run: as many pages as it extracted, numbered
\* from 1, every chunk on one of them; none when it extracted no page.
C2_RowsAreThoseOfTheRun ==
    \A c \in ContentIds :
       (AfterRun(c) /\ Succeeded(LastRun(c))) =>
          /\ Len(pages[c]) = LastRun(c).extracted
          /\ \A k \in 1..Len(pages[c]) : pages[c][k].page_no = k
          /\ \A k \in 1..Len(chunks[c]) :
                chunks[c][k].meta.page_start \in 1..LastRun(c).extracted

\* C3: when a run fails part-way the rows of the previous run are unchanged
\* and the status of the content item is error.
C3_FailureKeepsRowsAndMarksError ==
    \A c \in ContentIds :
       (AfterRun(c) /\ LastRun(c).exc # NULL) =>
          /\ pages[c] = RowsBefore(c).pages
          /\ chunks[c] = RowsBefore(c).chunks
          /\ content[c].ingestion_status = "error"

\* C4: the status only moves none -> queued -> processing -> done, warning
\* or error; a terminal status is only reached from processing, and a new
\* run leaves a terminal status towards processing only.
C4_StatusTransitions ==
    [][\A c \in ContentIds :
         LET a == content[c].ingestion_status
             b == content'[c].ingestion_status
         IN a # b =>
              \/ a = "none" /\ b = "queued"
              \/ a \in {"queued"} \cup Terminal /\ b = "processing"
              \/ a = "processing" /\ b \in Terminal]_vars

\* C4 witness: a re-run of a PDF item has reached a terminal status again
C4_Witness ==
    \E c \in ContentIds :
       /\ AfterRun(c) /\ Len(log[c]) >= 2
       /\ log[c][1].pc = "pdf_persist" /\ Succeeded(log[c][1])
       /\ LastRun(c).pc = "pdf_persist" /\ Succeeded(LastRun(c))
       /\ content[c].ingestion_status \in Terminal

\* C5: once a run started for a file-backed PDF or PPTX item has ended, the
\* status is done, warning or error, and done or warning when extraction
\* and persistence succeeded.
C5_RunEndsInTerminalStatus ==
    \A c \in ContentIds :
       (AfterRun(c) /\ Started(LastRun(c))) =>
          /\ content[c].ingestion_status \in Terminal
          /\ Succeeded(LastRun(c)) =>
                content[c].ingestion_status \in {"done", "warning"}

\* C6: when the extractor raises on the downloaded bytes, the item is marked
\* error with the message of the exception and no row is written or deleted.
C6_CorruptSourceMarksError ==
    \A c \in ContentIds :
       (AfterRun(c) /\ LastRun(c).exc = ExtractError) =>
          /\ content[c].ingestion_status = "error"
          /\ content[c].ingestion_error = ExtractError
          /\ pages[c] = RowsBefore(c).pages
          /\ chunks[c] = RowsBefore(c).chunks

\* C7: a failed download is caught: the run returns, the status is error and
\* ingestion_error holds the message of the exception.
C7_DownloadFailureRecorded ==
    \A c \in ContentIds :
       (AfterRun(c) /\ LastRun(c).exc \in DownloadErrors) =>
          /\ LastRun(c).outcome = "returned"
          /\ content[c].ingestion_status = "error"
          /\ content[c].ingestion_error = LastRun(c).exc

\* C8: when extraction and persistence succeeded, the status is done if the
\* pages hold at least 200 characters in total, and else warning with the
\* reason low_text_extracted.
C8_OutcomeByTextVolume ==
    \A c \in ContentIds :
       (AfterRun(c) /\ Succeeded(LastRun(c)) /\ LastRun(c).extracted > 0) =>
          IF StoredChars(pages[c]) >= LowTextThreshold
          THEN content[c].ingestion_status = "done"
          ELSE /\ content[c].ingestion_status = "warning"
               /\ content[c].ingestion_warning = "low_text_extracted"

\* the page texts the PDF extractor returns for the bytes of a run
PdfTexts(e) ==
    LET r == extract_pdf_pages(e.bytes)
    IN [i \in 1..Len(r.pages) |-> TextLen(r.pages[i].text)]

\* a PDF run that extracted its source and returned normally
PdfSucceeded(e) ==
    /\ e.pc \in {"pdf_extract", "pdf_persist"}
    /\ Succeeded(e)

C10_ChunkIndexContiguous ==
    \A c \in ContentIds :
       /\ {chunks[c][k].chunk_index : k \in 1..Len(chunks[c])}
             = 0..(Len(chunks[c]) - 1)
       /\ \A i, j \in 1..Len(chunks[c]) :
             i # j => chunks[c][i].chunk_index # chunks[c][j].chunk_index

\* C10 witness: after a re-run, a first page that gave no chunk is stored
\* before a page that gave several
C10_Witness ==
    \E c \in ContentIds :
       /\ Len(log[c]) >= 2
       /\ Len(pages[c]) >= 2
       /\ TextLen(pages[c][1].text) = 0
       /\ Len(chunks[c]) >= 2

\* the chunks ch lie each on one page of the pages pg of content id c
OnePageOfTheRun(c, pg, ch) ==
    \A k \in 1..Len(ch) :
       /\ ch[k].meta.page_start = ch[k].meta.page_end
       /\ \E i \in 1..Len(pg) :
            /\ pg[i].page_no = ch[k].meta.page_start
            /\ pg[i].content_id = ch[k].content_id
            /\ ch[k].content_id = c

\* C16: every chunk row of a document source is on one page (page_start =
\* page_end), and that page is the page_no of a page row of the same content
\* id written by the same run: in the rows a run has committed and in the
\* rows stored at any moment.
C16_ChunkOnOnePageOfItsRun ==
    \A c \in ContentIds :
       /\ OnePageOfTheRun(c, pages[c], chunks[c])
       /\ OnePageOfTheRun(c, run[c].page_rows, run[c].chunk_rows)
       /\ \A i \in 1..Len(log[c]) :
            OnePageOfTheRun(c, log[c][i].pages, log[c][i].chunks)

\* C16 witness: a run has committed its rows, with chunks on more than one
\* page, one of them the second page
C16_Witness ==
    \E c \in ContentIds :
       /\ AfterRun(c)
       /\ LastRun(c).pc \in {"pdf_persist", "pptx_persist"}
       /\ LastRun(c).exc = NULL
       /\ \E k \in 1..Len(chunks[c]) : chunks[c][k].meta.page_start = 2
       /\ Len(chunks[c]) >= 2

\* C17: deleting a content item destroys its page and chunk rows, and
\* however the deletion falls between the steps of an ingestion run of the
\* same content id, no page or chunk row of a deleted content id is stored,
\* in particular once the run has ended as well.
C17_NoRowsOfDeletedContent ==
    \A c \in ContentIds :
       c \in deleted => /\ ~content[c].exists
                        /\ pages[c] = << >>
                        /\ chunks[c] = << >>

\* C17 witness: the content item had chunks from a first run and was deleted
\* while a second run was between extraction and its commit; both have ended
C17_Witness ==
    \E c \in ContentIds :
       /\ c \in deleted
       /\ run[c].pc = "idle"
       /\ Len(log[c]) >= 2
       /\ log[c][1].chunks # << >>
       /\ LastRun(c).pc \in {"pdf_persist", "pptx_persist"}
       /\ LastRun(c).chunks = << >>

----
(* What a caller observes of a retrieval call *)

\* the chunks stored for a course
CourseChunks(course_id) == {r \in AllChunks : r.course_id = course_id}

\* the category is one of the entries of the list, whitespace around an
\* entry aside
Listed(categories, category) ==
    \E i \in 1..Len(categories.items) :
       str_strip(categories.items[i]) = Str(0, category, 0)

\* the list has an entry that is not blank
HasEntry(categories) ==
    \E i \in 1..Len(categories.items) : categories.items[i].core # ""

\* the query is None, empty or whitespace only
Blank(query) == query.none \/ query.core = ""

Least(a, b) == IF a <= b THEN a ELSE b

\* C11: every hit of a retrieval call scoped to a course is a chunk of that
\* course, by its column, by the content item it belongs to and by the
\* course id of its metadata, whatever the query, top_k and category filter.
C11_CourseIsolation ==
    call.done =>
       \A i \in 1..Len(call.hits) :
          /\ call.rows[i].course_id = call.course_id
          /\ content[call.rows[i].content_id].course_id = call.course_id
          /\ call.hits[i].metadata.course_id = UuidStr(call.course_id)

\* C11 witness: a call scoped to course B returned fewer hits than asked for
\* while a chunk of course A scores higher than every hit
C11_Witness ==
    /\ call.done
    /\ call.course_id = "courseB"
    /\ call.hits # << >>
    /\ Len(call.hits) < call.top_k
    /\ \E r \in CourseChunks("courseA") :
          \A i \in 1..Len(call.hits) :
             Score(r.text, str_strip(call.query)) > call.hits[i].score

\* C12 as stated: with a category list every hit has one of the listed
\* categories; without one the hits come from all chunks of the course.
C12_AsStated ==
    call.done =>
       /\ ~call.categories.none =>
             \A i \in 1..Len(call.hits) :
                Listed(call.categories, call.hits[i].metadata.category)
       /\ (call.categories.none /\ ~Blank(call.query) /\ call.top_k > 0) =>
             Len(call.hits) =
                Least(call.top_k, Cardinality(CourseChunks(call.course_id)))

\* C12: with a category list that has an entry that is not blank, the hits
\* are chunks of the listed categories only (and as many of them as top_k
\* allows); without a list, with an empty list or with blank entries only,
\* the hits come from all chunks of the course.
C12_CategoryScoping ==
    call.done =>
       /\ HasEntry(call.categories) =>
             \A i \in 1..Len(call.hits) :
                /\ Listed(call.categories, call.hits[i].metadata.category)
                /\ Listed(call.categories, call.rows[i].category)
       /\ (~Blank(call.query) /\ call.top_k > 0) =>
             Len(call.hits) =
                Least(call.top_k,
                      Cardinality({r \in CourseChunks(call.course_id) :
                                     HasEntry(call.categories) =>
                                        Listed(call.categories, r.category)}))

\* C12 witness: a call for the exams of a course that also has notes returned
\* hits, fewer than asked for
C12_Witness ==
    /\ call.done
    /\ call.categories = List(<< Str(0, "exams", 0) >>)
    /\ call.hits # << >>
    /\ Len(call.hits) < call.top_k
    /\ \E r \in CourseChunks(call.course_id) : r.category = "notes"

\* C13: the hits are in the order of their score, highest first, hits of
\* equal score in the order of created_at, latest first, and a call with the
\* inputs of the call before it, over the same stored chunks, returns the
\* same hits in the same order.
C13_DeterministicOrder ==
    [][call'.done =>
         /\ \A i, j \in 1..Len(call'.rows) :
               i < j => ~Before(call'.rows[j], call'.rows[i],
                                str_strip(OrEmpty(call'.query)))
         /\ ( /\ call.done
              /\ call'.course_id = call.course_id
              /\ call'.query = call.query
              /\ call'.top_k = call.top_k
              /\ call'.categories = call.categories
              /\ chunks' = chunks )
            => call'.hits = call.hits]_vars

\* C14: the metadata of every hit has a content id, a course id and a
\* category, none of them null: those of the columns of the chunk, since the
\* stored metadata has none of the three.
C14_MetadataNormalized ==
    call.done =>
       \A i \in 1..Len(call.hits) :
          LET m == call.hits[i].metadata
              r == call.rows[i]
          IN /\ {"content_id", "course_id", "category"} \subseteq DOMAIN m
             /\ m.content_id # NULL /\ m.course_id # NULL /\ m.category # NULL
             /\ m.content_id = UuidStr(r.content_id)
             /\ m.course_id = UuidStr(r.course_id)
             /\ m.category = r.category

\* C14 witness: hits built from stored metadata without the three fields
C14_Witness ==
    /\ call.done
    /\ Len(call.hits) >= 2
    /\ \A i \in 1..Len(call.rows) :
          {"content_id", "course_id", "category"} \cap DOMAIN call.rows[i].meta = {}

\* C15: a call whose query is None, empty or whitespace only, or whose top_k
\* is zero or less, returns the empty list whatever chunks are stored.
C15_EmptyQueryOrTopK ==
    (call.done /\ (Blank(call.query) \/ call.top_k <= 0)) => call.hits = << >>

\* C15 witness: a whitespace-only query, with top_k above zero, on a course
\* that has chunks
C15_Witness ==
    /\ call.done
    /\ ~call.query.none /\ call.query.core = "" /\ call.query.pre > 0
    /\ call.top_k > 0
    /\ CourseChunks(call.course_id) # {}
    /\ call.hits = << >>

----
(* What a caller observes of merge_cues *)

\* the cues (0,1,"a"), (1,2,"b"), (2,3,"c")
ExampleCues ==
    << VttCue(Sec(0), Sec(1), <<"a">>), VttCue(Sec(1), Sec(2), <<"b">>),
       VttCue(Sec(2), Sec(3), <<"c">>) >>

ExampleMerged ==
    /\ merged.done
    /\ merged.cues = ExampleCues
    /\ merged.max_chars >= 5

AllInOne == << VttCue(Sec(0), Sec(3), <<"a", " ", "b", " ", "c">>) >>

\* C18 as stated: for the three example cues and max_chars that holds them,
\* a window of 3 s or more gives the single segment (0,3,"a b c") and a
\* window of 1.5 s gives exactly two segments.
C18_AsStated ==
    ExampleMerged =>
       /\ merged.max_window_sec >= Sec(3) => merged.out = AllInOne
       /\ merged.max_window_sec = Sec(1) + HalfSec => Len(merged.out) = 2

\* C18: for the three example cues and max_chars that holds them, a window
\* of 3 s or more gives the single segment (0,3,"a b c"); a window of 1.5 s
\* gives three segments, the cues themselves; a window of 2 s gives the two
\* segments (0,2,"a b") and (2,3,"c").
C18_ExampleMerge ==
    ExampleMerged =>
       /\ merged.max_window_sec >= Sec(3) => merged.out = AllInOne
       /\ merged.max_window_sec = Sec(1) + HalfSec => merged.out = ExampleCues
       /\ merged.max_window_sec = Sec(2) =>
             merged.out = << VttCue(Sec(0), Sec(2), <<"a", " ", "b">>),
                             VttCue(Sec(2), Sec(3), <<"c">>) >>

\* C18 witness: the example cues merged with a window of 1.5 s
C18_Witness ==
    /\ ExampleMerged
    /\ merged.max_window_sec = Sec(1) + HalfSec
    /\ Len(merged.out) = 3

\* C19: a segment built from two or more cues has a text of at most
\* max_chars characters and lies at most max_window_sec from its start to
\* its end; the segments come in the order of the input cues, one for each
\* buffer, their starts never decreasing.
C19_SegmentsBounded ==
    merged.done =>
       /\ Len(merged.out) = Len(merged.buffers)
       /\ \A k \in 1..Len(merged.out) :
             Len(merged.buffers[k]) >= 2 =>
                /\ Len(merged.out[k].text) <= merged.max_chars
                /\ merged.out[k].end_sec - merged.out[k].start_sec
                      <= merged.max_window_sec
       /\ \A i, j \in 1..Len(merged.out) :
             i < j => /\ merged.out[i].start_sec <= merged.out[j].start_sec
                      /\ merged.out[i].start_sec = merged.buffers[i][1].start_sec
       /\ LET Cat[k \in 0..Len(merged.buffers)] ==
                  IF k = 0 THEN << >> ELSE Cat[k - 1] \o merged.buffers[k]
          IN Cat[Len(merged.buffers)] = merged.cues

\* C19 witness: a segment of two cues next to a segment of one cue whose text
\* alone is longer than max_chars
C19_Witness ==
    /\ merged.done
    /\ \E k \in 1..Len(merged.out) : Len(merged.buffers[k]) >= 2
    /\ \E k \in 1..Len(merged.out) :
          /\ Len(merged.buffers[k]) = 1
          /\ Len(merged.out[k].text) > merged.max_chars

----
(* What a caller observes of the transcript writers *)

\* the language codes a row may carry
StoredLanguages ==
    {Str(0, "en", 0), Str(0, "he", 0), Str(0, "he", 1), Str(0, "und", 0)}

RowsOfPair(table, v, lang) == SelectSeq(table, LAMBDA r : InPair(r, v, lang))

\* the rows as segments (start, end, text)
AsSegments(rows) ==
    [i \in 1..Len(rows) |->
       VttCue(rows[i].start_sec, rows[i].end_sec, rows[i].text)]

\* C20: when a run has persisted segments for an asset and a language, the
\* rows stored for that pair are exactly the segments of this run, in their
\* order, each once; the rows of every other pair (the same asset in another
\* language, another asset) are the rows stored before the run; every row
\* carries one of the known language codes.
C20_ReplacedWholesale ==
    [][(ingest'.n = ingest.n + 1 /\ ingest'.outcome = "persisted") =>
         LET v == ingest'.video_asset_id
             lang == ingest'.language_code
         IN /\ AsSegments(RowsOfPair(segments', v, lang)) = ingest'.produced
            /\ lang \in StoredLanguages
            /\ \A w \in VideoIds, k \in StoredLanguages :
                  (w # v \/ k # lang) =>
                     RowsOfPair(segments', w, k) = RowsOfPair(segments, w, k)
            /\ Len(segments') = Len(segments) - ingest'.deleted_rows
                                  + Len(ingest'.produced)]_vars

\* C20 witness: a run has replaced rows of an earlier run of its pair by its
\* own segments, while rows of the same asset in another language are stored
C20_Witness ==
    /\ ingest.done
    /\ ingest.outcome = "persisted"
    /\ ingest.deleted_rows > 0
    /\ ingest.produced # << >>
    /\ AsSegments(RowsOfPair(segments, ingest.video_asset_id,
                             ingest.language_code)) = ingest.produced
    /\ \E i \in 1..Len(segments) :
          /\ segments[i].video_asset_id = ingest.video_asset_id
          /\ segments[i].language_code # ingest.language_code

\* the mime type and the file name of a content item match neither PDF nor
\* PPTX
Unsupported(c) ==
    /\ content[c].exists /\ content[c].file_key
    /\ content[c].type.mime = "other" /\ content[c].type.ext = "other"

\* C21: a task started for a content item whose mime type and file name
\* match neither PDF nor PPTX ends in the dispatcher by returning: no step
\* of it changes a field of the content row or a row of document_pages or
\* content_chunks.
C21_UnsupportedIsNoOp ==
    [][\A c \in ContentIds :
         (Unsupported(c) /\ run[c].pc # "idle") =>
            /\ content'[c] = content[c]
            /\ pages'[c] = pages[c] /\ chunks'[c] = chunks[c]
            /\ run'[c].pc \in {run[c].pc, "idle"}
            /\ run'[c].pc = "idle" =>
                  /\ Len(log'[c]) = Len(log[c]) + 1
                  /\ log'[c][Len(log'[c])].outcome = "returned"
                  /\ log'[c][Len(log'[c])].exc = NULL]_vars

\* C21 witness: the task of a queued item of an unsupported type has ended
\* in the dispatcher, with indexing enabled, and the item is still queued
C21_Witness ==
    \E c \in ContentIds :
       /\ Unsupported(c) /\ settings.rag_enabled
       /\ AfterRun(c) /\ LastRun(c).pc = "ingest_content_to_db"
       /\ content[c].ingestion_status = "queued"

\* the steps of the two ingestion functions
IngestionSteps ==
    {"ingest_pdf_content_to_db", "pdf_download", "pdf_extract", "pdf_persist",
     "ingest_pptx_content_to_db", "pptx_download", "pptx_extract",
     "pptx_persist"}

Replied == chat.done /\ chat.op = "generate_reply" /\ chat.outcome = "returned"

\* the excerpts of the retrieved-excerpts messages of a prompt, in order
RECURSIVE PromptExcerpts(_)
PromptExcerpts(messages) ==
    IF messages = << >> THEN << >>
    ELSE (IF Head(messages).content.kind = "rag_context"
          THEN Head(messages).content.excerpts ELSE << >>)
         \o PromptExcerpts(Tail(messages))

\* C25: when generate_reply returns, its citations are one per excerpt of
\* the retrieved-excerpts message of the prompt it sent, in the same order,
\* each citation of the hit of its excerpt; without such a message it
\* returns no citation.
C25_CitationsMatchPrompt ==
    Replied =>
       LET excerpts == PromptExcerpts(chat.sent) IN
       /\ Len(chat.citations) = Len(excerpts)
       /\ \A i \in 1..Len(excerpts) :
             /\ excerpts[i].no = i
             /\ chat.citations[i].snippet.id = excerpts[i].snippet.id
             /\ chat.citations[i].extra.score = <<chat.retrieval.hits[i].score>>
       /\ excerpts = << >> => chat.citations = << >>

\* C25 witness: a reply was returned for a prompt with two excerpts
C25_Witness ==
    /\ Replied
    /\ Len(PromptExcerpts(chat.sent)) = 2
    /\ Len(chat.citations) = 2

\* the output of the language model is None, empty or whitespace only
BlankOutput == chat.llm.content.none \/ chat.llm.content.core = ""

Conversational(item) ==
    item.role \in {"user", " User", "assistant", "Assistant "}

\* the last n items of a history
Recent(history, n) ==
    [i \in 1..(IF Len(history) < n THEN Len(history) ELSE n) |->
        history[Len(history) - (IF Len(history) < n THEN Len(history) ELSE n) + i]]

\* C29: the list given to the language model is the system prompt, then
\* the retrieved-excerpts message when hits were retrieved, then the
\* messages of the last N items of the history, oldest first, then the new
\* user message, which occurs in the list once.
C29_MessageList ==
    (chat.done /\ chat.op = "generate_reply" /\ chat.sent # << >>) =>
       LET sent == chat.sent
           k == IF chat.hits # << >> THEN 2 ELSE 1
           prior == SelectSeq(Recent(chat.history, settings.chat_history_max_messages),
                              Conversational)
       IN /\ sent[1].type = "system" /\ sent[1].content.kind = "system_prompt"
          /\ chat.hits # << >> =>
                /\ sent[2].type = "system"
                /\ sent[2].content.kind = "rag_context"
          /\ Len(PromptExcerpts(sent)) = Len(chat.hits)
          /\ Len(sent) = k + Len(prior) + 1
          /\ Len(prior) <= settings.chat_history_max_messages
          /\ \A j \in 1..Len(prior) :
                /\ sent[k + j].content = TextOf(prior[j].content)
                /\ sent[k + j].type =
                      IF prior[j].role \in {"user", " User"} THEN "human" ELSE "ai"
          /\ sent[Len(sent)] = HumanMessage(TextOf(chat.user_message))
          /\ Cardinality({i \in 1..Len(sent) :
                            sent[i].content = TextOf(chat.user_message)}) = 1

\* C29 witness: a prompt of four messages was sent for a history longer
\* than the configured maximum, with retrieved excerpts
C29_Witness ==
    /\ Replied
    /\ Len(chat.history) > settings.chat_history_max_messages
    /\ chat.hits # << >>
    /\ Len(chat.sent) = 4
    /\ chat.sent[3].content = TextOf(chat.history[Len(chat.history)].content)

\* a value of the extra of a citation
Extra(citation, key) ==
    IF key \in DOMAIN citation.extra THEN citation.extra[key] ELSE << >>

\* C30: _hits_to_citations gives one citation per hit, in order, whose extra
\* holds pageStart = page_start, pageEnd = page_end and sourceKind =
\* source_kind of the metadata of the hit, and slideNo = slide_no for a hit
\* on a slide.
C30_CitationsCarryProvenance ==
    Replied =>
       /\ Len(chat.citations) = Len(chat.hits)
       /\ \A i \in 1..Len(chat.hits) :
             LET meta == chat.hits[i].metadata
                 c == chat.citations[i]
             IN /\ c.snippet.id = chat.hits[i].text.id
                /\ Extra(c, "pageStart") = Get(meta, "page_start")
                /\ Extra(c, "pageEnd") = Get(meta, "page_end")
                /\ Extra(c, "sourceKind") = Get(meta, "source_kind")
                /\ Has(meta, "slide_no") =>
                      Extra(c, "slideNo") = Get(meta, "slide_no")

\* a chat request has gone as far as the try block around the engine
Tried == chat.done /\ chat.op = "course_chat" /\ chat.outcome # "HTTPException"

\* C26: a chat request during which retrieval raised, with an API key set
\* and a language model that answers, is answered 200 from a prompt without
\* retrieved excerpts and returns no citation.
C26_RetrievalFailureDegrades ==
    (Tried /\ chat.retrieved /\ chat.retrieval.raised
       /\ ~MissingKey(settings) /\ ~chat.llm.raised) =>
       /\ chat.status = 200
       /\ chat.sent # << >> /\ PromptExcerpts(chat.sent) = << >>
       /\ chat.text # ""
       /\ chat.citations = << >>

\* C27: a chat request that reaches the engine is answered 501 exactly when
\* no API key is set, 502 exactly when a key is set and the call of the
\* language model raised, and otherwise neither.
C27_StatusTellsCause ==
    Tried =>
       /\ chat.status = 501 <=> MissingKey(settings)
       /\ chat.status = 502 <=> (~MissingKey(settings) /\ chat.llm.raised)
       /\ (~MissingKey(settings) /\ ~chat.llm.raised) =>
             chat.status \notin {501, 502}

----
(* The rows a chat request leaves *)

\* the last k rows of a table
Appended(before, after) ==
    [i \in 1..(Len(after) - Len(before)) |-> after[Len(before) + i]]

----
(* Refresh sessions *)

\* the client has the answer of a refresh request
Refreshed(p, status) ==
    auth.proc[p].pc = "done" /\ auth.proc[p].status = status

\* the row of the token is live
Live(token) == LiveSessions(auth.sessions, hash_refresh_token(token)) # {}

\* C32: refresh tokens rotate.  A successful /auth/refresh issues a refresh
\* token different from the presented one, and a later /auth/refresh that
\* presents a token that was already rotated is rejected with 401.
C32_RefreshTokensRotate ==
    \A p \in Clients :
       /\ Refreshed(p, 200) => auth.proc[p].issued # auth.proc[p].presented
       /\ auth.proc[p].replay => Refreshed(p, 401)

\* one client has rotated a token and holds a live successor; the other one
\* presented the rotated token afterwards and was answered 401
C32_Witness ==
    \E p, q \in Clients :
       /\ Refreshed(p, 200) /\ Live(auth.proc[p].issued)
       /\ auth.proc[q].replay /\ Refreshed(q, 401)
       /\ auth.proc[q].presented = auth.proc[p].presented

\* C40: of the /auth/refresh requests that present the same valid refresh
\* token at the same time at most one succeeds: a refresh session is never
\* rotated into two live successor sessions.
C40_SingleSuccessor ==
    \A p, q \in Clients :
       (/\ p # q
        /\ Refreshed(p, 200) /\ Refreshed(q, 200)
        /\ auth.proc[p].session = auth.proc[q].session)
       => ~(Live(auth.proc[p].issued) /\ Live(auth.proc[q].issued))

----
(* Transcription jobs that yield no segments *)

\* the rows of transcript_segments of an asset
RowsOfAsset(v) == SelectSeq(segments, LAMBDA r : r.video_asset_id = v)

\* the last run was a transcription job that completed and got this
\* many segments
Transcribed(k) ==
    /\ ingest.done /\ ingest.writer = "runpod" /\ ingest.outcome = "persisted"
    /\ Len(ingest.produced) = k

\* C35: when a transcription job completes but yields no segments, the video
\* asset ends in status error with a transcription_error that is not null
\* and no transcript segment is stored for it; status done is reached only
\* with at least one stored segment.
C35_EmptyTranscriptIsError ==
    \A v \in VideoIds :
       /\ (Transcribed(0) /\ ingest.video_asset_id = v) =>
             /\ asset[v].status = "error"
             /\ asset[v].transcription_error # NULL
             /\ RowsOfPair(segments, v, ingest.language_code) = << >>
       /\ asset[v].status = "done" => RowsOfAsset(v) # << >>

----
(* Video uploads and transcription requests *)

\* the client has the answer 200 of a finalize request
Finalized(p) ==
    /\ video.proc[p].pc = "done" /\ video.proc[p].op = "finalize"
    /\ video.proc[p].status = 200

\* C33: finalizing a video upload is idempotent per course and
\* source_file_key.  A key is registered by at most one video asset and one
\* content row, and every finalize request of the key is answered with these
\* rows, also when two finalize requests of the key race.
C33_FinalizeIdempotent ==
    /\ \A i, j \in DOMAIN video.assets :
          video.assets[i].source_file_key = video.assets[j].source_file_key
          => i = j
    /\ \A i, j \in DOMAIN video.contents :
          video.contents[i].file_key = video.contents[j].file_key => i = j
    /\ \A p \in Clients :
          Finalized(p) =>
             LET me == video.proc[p]
             IN /\ me.asset \in DOMAIN video.assets
                /\ video.assets[me.asset].source_file_key = me.key
                /\ me.content = video.assets[me.asset].content_id
                /\ video.contents[me.content].file_key = me.key

\* two finalize requests of one key raced: the commit of one raised
\* IntegrityError, both were answered with the one asset of the key
C33_Witness ==
    \E p, q \in Clients :
       /\ p # q /\ Finalized(p) /\ Finalized(q)
       /\ video.proc[q].conflict
       /\ video.proc[p].key = video.proc[q].key
       /\ video.proc[p].asset = video.proc[q].asset
       /\ Len(video.assets) = 1 /\ Len(video.contents) = 1

\* the client has the answer of a start request that scheduled a job
Scheduled(p) ==
    /\ video.proc[p].pc = "done" /\ video.proc[p].op = "start"
    /\ video.proc[p].scheduled

\* the jobs in flight of an asset
JobsOf(id) == {j \in DOMAIN video.jobs : video.jobs[j].asset = id}

\* C34: starting transcription is idempotent.  A start request that finds
\* the transcription in progress (or done, without force) schedules no job,
\* and repeated or concurrent start requests leave at most one
\* transcription job in flight per asset.
C34_OneJobInFlight ==
    /\ \A p \in Clients : video.proc[p].noop => ~video.proc[p].scheduled
    /\ \A p, q \in Clients :
          (/\ p # q /\ Scheduled(p) /\ Scheduled(q)
           /\ video.proc[p].asset = video.proc[q].asset)
          => Cardinality(JobsOf(video.proc[p].asset)) <= 1

----
(* merge_cues as one greedy pass *)

\* the texts of the first n cues of a buffer joined by single blanks, and
\* the number of their characters
JoinedTo(buf, n) ==
    LET T[i \in 1..n] ==
          IF i = 1 THEN buf[1].text ELSE T[i - 1] \o <<" ">> \o buf[i].text
    IN T[n]

\* the first n cues of a buffer with a further cue are within both budgets
WithinBudgets(buf, n, cue) ==
    /\ Len(JoinedTo(buf, n)) + 1 + Len(cue.text) <= merged.max_chars
    /\ cue.end_sec - buf[1].start_sec <= merged.max_window_sec

\* the buffers one after the other
AllCues(buffers) ==
    LET Cat[k \in 0..Len(buffers)] ==
          IF k = 0 THEN << >> ELSE Cat[k - 1] \o buffers[k]
    IN Cat[Len(buffers)]

\* C39: merge_cues is a single greedy pass that loses and duplicates
\* nothing.  A cue is added to the buffer while the buffer with it is within
\* the character and the time-window budget and the buffer is flushed
\* exactly when it would not be; the remaining buffer is flushed at the
\* end; each segment spans its buffer's first start to its last end with the
\* cue texts joined in order; every input cue is in exactly one segment.
C39_GreedyPass ==
    merged.done =>
       LET b == merged.buffers
       IN /\ AllCues(b) = merged.cues
          /\ \A k \in 1..Len(b) :
                /\ b[k] # << >>
                /\ \A n \in 1..(Len(b[k]) - 1) :
                      WithinBudgets(b[k], n, b[k][n + 1])
                /\ k < Len(b) => ~WithinBudgets(b[k], Len(b[k]), b[k + 1][1])
          /\ Len(merged.out) = Len(b)
          /\ \A k \in 1..Len(b) :
                /\ merged.out[k].start_sec = b[k][1].start_sec
                /\ merged.out[k].end_sec = b[k][Len(b[k])].end_sec
                /\ merged.out[k].text = JoinedTo(b[k], Len(b[k]))

\* three cues in two segments: the second cue was added to the buffer, the
\* third one would have passed the time window though its text fitted, and
\* it was flushed at the end
C39_Witness ==
    /\ merged.done
    /\ Len(merged.cues) = 3 /\ Len(merged.buffers) = 2
    /\ Len(merged.buffers[1]) = 2
    /\ LET first == merged.buffers[1]
           cue == merged.buffers[2][1]
       IN /\ Len(JoinedTo(first, 2)) + 1 + Len(cue.text) <= merged.max_chars
          /\ cue.end_sec - first[1].start_sec > merged.max_window_sec
    /\ merged.out[2].text = merged.cues[3].text

\* the chunk rows a run stored
ChunksOf(k) == Inserted(k, race.run[k].chunk_rows)
PagesOf(k) == Inserted(k, race.run[k].page_rows)

\* C36: a retrieval beside an ingestion run finds, for the content id,
\* either all the chunk rows that were stored before the run or all the
\* chunk rows of a run that has committed, never a part of one set or rows
\* of two sets.
C36_ReadsWholeSet ==
    race.read.done =>
       \/ race.read.rows = RowSet(race.first.chunks)
       \/ \E k \in race.read.committed : race.read.rows = RowSet(ChunksOf(k))

\* C36 witness: a single run has started; the retrieval ran after the run
\* had deleted the stored chunk rows and before it committed, and found all
\* of the rows of the earlier run
C36_Witness ==
    /\ race.n = 1
    /\ race.read.done
    /\ race.read.pending # {}
    /\ race.read.committed = {}
    /\ race.read.rows = RowSet(race.first.chunks)

\* both runs have returned or raised
BothEnded == \A k \in Runners : race.run[k].pc = "ended"

NoDuplicateKeys ==
    /\ \A i, j \in 1..Len(pages[Raced]) :
          pages[Raced][i].row.page_no = pages[Raced][j].row.page_no => i = j
    /\ \A i, j \in 1..Len(chunks[Raced]) :
          chunks[Raced][i].row.chunk_index = chunks[Raced][j].row.chunk_index
             => i = j

\* both runs have returned
BothReturned == \A k \in Runners : race.run[k].outcome = "returned"

\* C37: once two concurrent runs of a content id have both ended, the stored
\* page and chunk rows are the rows of one run that stored rows (those of
\* before when neither did), with no page_no and no chunk_index twice; and
\* when both have returned, ingestion_status is the status assigned by the
\* run that committed last.
C37_OneRunsRows ==
    BothEnded =>
       LET stored == {k \in Runners : race.run[k].persisted}
       IN /\ IF stored = {}
             THEN /\ pages[Raced] = race.first.pages
                  /\ chunks[Raced] = race.first.chunks
             ELSE \E k \in stored : /\ pages[Raced] = PagesOf(k)
                                    /\ chunks[Raced] = ChunksOf(k)
          /\ NoDuplicateKeys
          /\ BothReturned =>
               content[Raced].ingestion_status = race.last.status

\* C37 witness: a run started while the other was underway, both have
\* returned and both stored rows; the rows are those of the run that
\* committed last
C37_Witness ==
    /\ race.together
    /\ BothReturned
    /\ \A k \in Runners : race.run[k].persisted
    /\ pages[Raced] = PagesOf(race.last.by)
    /\ pages[Raced] # << >>

StatusFieldsAgree(row) ==
    /\ row.ingestion_status = "done" =>
         row.ingestion_warning = NULL /\ row.ingestion_error = NULL
    /\ row.ingestion_status = "warning" =>
         row.ingestion_warning # NULL /\ row.ingestion_error = NULL
    /\ row.ingestion_status = "error" => row.ingestion_error # NULL
    /\ row.ingestion_completed_at # NULL <=>
         row.ingestion_status \in {"done", "warning", "error"}

\* C38: in every committed state the status fields of a content row agree:
\* done goes with no warning and no error, warning with a warning reason and
\* no error, error with an error message, and the completion time is set
\* exactly in the statuses done, warning and error.
C38_StatusFieldsAgree ==
    \A c \in ContentIds : content[c].exists => StatusFieldsAgree(content[c])

====
